---- MODULE Spec2Model ----
(***************************************************************************)
(* Keyset ("cursor") pagination of objection-paginator: the sort           *)
(* descriptor, the linked SortNode chain with its ORDER BY terms and       *)
(* cursor filters, the Cursor codec and Paginator#execute.                 *)
(*                                                                         *)
(* Column values are tagged records [t, v]; a column identifier is the     *)
(* sequence of its characters; a row (entity) is a function from column    *)
(* identifiers to values.  A query builder is the sequence of its WHERE    *)
(* clauses, each carrying the boolean connector knex attaches to it.       *)
(***************************************************************************)
EXTENDS Integers, Sequences, FiniteSets, TLC

(* ------------------------------ bounds -------------------------------- *)
MaxChain == 2
MaxVal == 2
MaxRows == 2
MaxLimit == 2
MaxCalls == 3
MaxMut == 1

(* ------------------------------ values -------------------------------- *)
Null == [t |-> "null", v |-> 0]
Undefined == [t |-> "undef", v |-> 0]
IntVal(n) == [t |-> "int", v |-> n]
StrVal(n) == [t |-> "str", v |-> n]

\* The columns of the tables are named a, aa, ... : Col(c) is the c-th.
Col(c) == [i \in 1..c |-> "a"]
Columns == {Col(c) : c \in 1..MaxChain}
IntVals == {IntVal(n) : n \in 1..MaxVal}
DbVals == IntVals \cup {Null}
EntityVals == DbVals \cup {Undefined}
CursorVals == DbVals \cup {StrVal(1)}

(* ------------------- sort-descriptor.ts enumerations ------------------ *)
SortDirection == {"asc", "desc", "descnl"}
ColumnType == {"string", "integer", "float", "boolean", "date"}

(* ------------------------ get-error-class.ts -------------------------- *)
\* Mutation: the validation case is ignored.
getErrorClass_anyCase(validationCase) == "InvalidCursorError"

\* The name of the error class of the validation case; for a value that is
\* no member of ValidationCase the call throws a TypeError, which stands
\* here as the name "TypeError".
getErrorClass(validationCase) ==
    CASE validationCase = "Configuration" -> "ConfigurationError"
      [] validationCase = "Cursor" -> "InvalidCursorError"
      [] OTHER -> "TypeError"

(* -------------------- concrete-sort-descriptor.ts --------------------- *)
ConcreteSortDescriptor(column, columnType, nullable, direction) ==
    [column |-> column, columnType |-> columnType, nullable |-> nullable,
     direction |-> direction, valuePath |-> column, validate |-> "none"]

order(d) == IF d.direction = "descnl" THEN "desc" ELSE d.direction

\* Mutation: the is-null term takes the order of the value term.
nullOrder_asOrder(d) == IF d.direction = "descnl" THEN "desc" ELSE d.direction

nullOrder(d) == IF d.direction = "descnl" THEN "asc" ELSE d.direction

\* Mutation: only plain descending gets '<'.
operator_descOnly(d) == IF d.direction = "desc" THEN "<" ELSE ">"

operator(d) == IF d.direction = "asc" THEN ">" ELSE "<"

checkCursorValue(d, value) ==
    CASE d.columnType = "string" -> value.t = "str"
      [] d.columnType = "integer" -> value.t = "int"
      [] d.columnType = "float" -> value.t \in {"int", "float"}
      [] d.columnType = "boolean" -> value.t = "bool"
      [] d.columnType = "date" -> value.t \in {"date", "str"}
      [] OTHER -> FALSE

\* The custom validation functions a descriptor is declared with in this
\* model: each answers true, false or a string.
Validators == {"accept", "reject", "explain", "notNull"}
ValidationFunction(d, value) ==
    CASE d.validate = "accept" ->
            [isString |-> FALSE, valid |-> TRUE, msg |-> ""]
      [] d.validate = "reject" ->
            [isString |-> FALSE, valid |-> FALSE, msg |-> ""]
      [] d.validate = "explain" ->
            [isString |-> TRUE, valid |-> FALSE, msg |-> "custom message"]
      [] d.validate = "notNull" ->
            IF value = Null
            THEN [isString |-> TRUE, valid |-> FALSE, msg |-> ""]
            ELSE [isString |-> FALSE, valid |-> TRUE, msg |-> ""]

\* The outcome of validateCursorValue, with the arguments of the calls it
\* made to the custom validation function.
Ok(value, calls) ==
    [err |-> "none", msg |-> "", value |-> value, calls |-> calls]
\* throw new (getErrorClass(validationCase))(msg): the TypeError of
\* getErrorClass leaves the call before any error is made from msg.
Throw(cls, msg, value, calls) ==
    [err |-> cls,
     msg |-> IF cls = "TypeError" THEN "Unknown validation case" ELSE msg,
     value |-> value, calls |-> calls]

\* Mutation: the custom validation function is asked before the type check.
validateCursorValue_validatorFirst(d, value, validationCase) ==
    LET hasValidate == d.validate # "none"
        validateResult == IF hasValidate THEN ValidationFunction(d, value)
                          ELSE [isString |-> FALSE, valid |-> TRUE, msg |-> ""]
        calls == IF hasValidate THEN <<value>> ELSE <<>>
        isValid == IF validateResult.isString THEN FALSE
                   ELSE validateResult.valid
        msg == IF validateResult.isString THEN validateResult.msg
               ELSE "Invalid cursor value"
    IN IF ~isValid
       THEN Throw(getErrorClass(validationCase), msg, value, calls)
       ELSE IF value = Null /\ ~d.nullable
       THEN Throw(getErrorClass(validationCase),
                  "Cursor value is null, but column is not nullable", value,
                  calls)
       ELSE IF value # Null /\ ~checkCursorValue(d, value)
       THEN Throw(getErrorClass(validationCase),
                  "Cursor value does not match its column type", value, calls)
       ELSE Ok(value, calls)

validateCursorValue(d, value, validationCase) ==
    IF value = Null /\ ~d.nullable
    THEN Throw(getErrorClass(validationCase),
               "Cursor value is null, but column is not nullable", value,
               <<>>)
    ELSE IF value # Null /\ ~checkCursorValue(d, value)
    THEN Throw(getErrorClass(validationCase),
               "Cursor value does not match its column type", value, <<>>)
    ELSE LET hasValidate == d.validate # "none"
             validateResult ==
                 IF hasValidate THEN ValidationFunction(d, value)
                 ELSE [isString |-> FALSE, valid |-> TRUE, msg |-> ""]
             calls == IF hasValidate THEN <<value>> ELSE <<>>
             isValid == IF validateResult.isString THEN FALSE
                        ELSE validateResult.valid
             msg == IF validateResult.isString THEN validateResult.msg
                    ELSE "Invalid cursor value"
         IN IF isValid THEN Ok(value, calls)
            ELSE Throw(getErrorClass(validationCase), msg, value, calls)

getCursorValue(d, entity) ==
    LET got == entity[d.valuePath]
        value == IF got = Undefined THEN Null ELSE got
    IN validateCursorValue(d, value, "Configuration")

(* ---------------------------- sort-node.ts ---------------------------- *)
\* A SortNode is the non-empty sequence of its descriptors: the node's own
\* descriptor is the head, its child is the tail when that is non-empty.
descriptor(node) == Head(node)
hasChild(node) == Len(node) > 1
child(node) == Tail(node)

RECURSIVE anyNullable(_)
anyNullable(node) ==
    descriptor(node).nullable \/ (hasChild(node) /\ anyNullable(child(node)))

RECURSIVE getOrderByDescriptors(_)
getOrderByDescriptors(node) ==
    LET d == descriptor(node)
        result == <<[kind |-> "value", column |-> d.column, order |-> order(d)]>>
    IN IF hasChild(node) THEN result \o getOrderByDescriptors(child(node))
       ELSE result

\* Mutation: an is-null term for every column.
getOwnOrderByTerms_always(node) ==
    LET d == descriptor(node)
    IN <<[kind |-> "isnull", column |-> d.column, order |-> nullOrder(d)],
         [kind |-> "value", column |-> d.column, order |-> order(d)]>>

getOwnOrderByTerms(node) ==
    LET d == descriptor(node)
        terms == <<[kind |-> "value", column |-> d.column, order |-> order(d)]>>
    IN IF d.nullable
       THEN <<[kind |-> "isnull", column |-> d.column, order |-> nullOrder(d)]>>
            \o terms
       ELSE terms

RECURSIVE getOrderByTerms(_)
getOrderByTerms(node) ==
    IF hasChild(node)
    THEN getOwnOrderByTerms(node) \o getOrderByTerms(child(node))
    ELSE getOwnOrderByTerms(node)

\* The ORDER BY the node puts on the query (orderByRaw or orderBy).
applyOrder(node) ==
    IF anyNullable(node) THEN getOrderByTerms(node)
    ELSE getOrderByDescriptors(node)

RECURSIVE getCursorValues(_, _)
getCursorValues(node, entity) ==
    LET first == getCursorValue(descriptor(node), entity)
    IN IF first.err # "none" THEN [err |-> first.err, msg |-> first.msg, values |-> <<>>]
       ELSE IF ~hasChild(node) THEN [err |-> "none", msg |-> "", values |-> <<first.value>>]
       ELSE LET rest == getCursorValues(child(node), entity)
            IN IF rest.err # "none" THEN rest
               ELSE [err |-> "none", msg |-> "", values |-> <<first.value>> \o rest.values]

(* --------------- the query builder's WHERE clauses ------------------- *)
Clause(bool, kind, column, op, value, sub) ==
    [bool |-> bool, kind |-> kind, column |-> column, op |-> op,
     value |-> value, sub |-> sub]
where(column, op, value) == Clause("and", "cmp", column, op, value, <<>>)
whereEq(column, value) == Clause("and", "eq", column, "=", value, <<>>)
whereNull(column) == Clause("and", "null", column, "", Null, <<>>)
orWhereNull(column) == Clause("or", "null", column, "", Null, <<>>)
whereNotNull(column) == Clause("and", "notnull", column, "", Null, <<>>)
whereGroup(sub) == Clause("and", "group", 0, "", Null, sub)
orWhereGroup(sub) == Clause("or", "group", 0, "", Null, sub)

\* A builder under construction: its clauses, or the error thrown meanwhile.
Qry(clauses) == [err |-> "none", msg |-> "", clauses |-> clauses]
QryThrow(r) == [err |-> r.err, msg |-> r.msg, clauses |-> <<>>]

\* Mutation: the null rows are added for every direction.
handleNulls_always(node, clauses) ==
    clauses \o <<orWhereNull(descriptor(node).column)>>

handleNulls(node, clauses) ==
    LET d == descriptor(node)
    IN IF d.direction # "desc" THEN clauses \o <<orWhereNull(d.column)>>
       ELSE clauses

applyInequality(node, clauses, value) ==
    LET d == descriptor(node)
        q1 == clauses \o <<where(d.column, operator(d), value)>>
    IN IF d.nullable THEN handleNulls(node, q1) ELSE q1

RECURSIVE applyCursorValues(_, _, _)
\* Mutation: the tie-break on the child is left out.
applyCursorValue_noTieBreak(node, qry, value, childValues) ==
    IF hasChild(node)
    THEN Qry(qry.clauses \o <<whereGroup(applyInequality(node, <<>>, value))>>)
    ELSE Qry(applyInequality(node, qry.clauses, value))

applyCursorValue(node, qry, value, childValues) ==
    LET d == descriptor(node)
    IN IF hasChild(node)
       THEN LET sub1a == applyInequality(node, <<>>, value)
                sub1b == applyCursorValues(child(node),
                             Qry(<<whereEq(d.column, value)>>), childValues)
            IN IF sub1b.err # "none" THEN QryThrow(sub1b)
               ELSE Qry(qry.clauses \o
                        <<whereGroup(<<whereGroup(sub1a),
                                       orWhereGroup(sub1b.clauses)>>)>>)
       ELSE Qry(applyInequality(node, qry.clauses, value))

applyNullCursorValueWithChildren(node, qry, childValues) ==
    LET d == descriptor(node)
    IN IF d.direction = "desc"
       THEN LET sub == applyCursorValues(child(node),
                           Qry(<<whereNull(d.column)>>), childValues)
            IN IF sub.err # "none" THEN QryThrow(sub)
               ELSE Qry(qry.clauses \o
                        <<whereNotNull(d.column), orWhereGroup(sub.clauses)>>)
       ELSE applyCursorValues(child(node),
                Qry(qry.clauses \o <<whereNull(d.column)>>), childValues)

applyNullCursorValue(node, qry, childValues) ==
    LET d == descriptor(node)
    IN IF hasChild(node)
       THEN applyNullCursorValueWithChildren(node, qry, childValues)
       ELSE IF d.direction # "desc"
       THEN Qry(qry.clauses \o <<whereNull(d.column)>>)
       ELSE qry

\* Mutation: a position without a value adds no filter.
applyCursorValues_skipMissing(node, qry, values) ==
    LET value == IF values = <<>> THEN Undefined ELSE Head(values)
        childValues == IF values = <<>> THEN <<>> ELSE Tail(values)
        checked == validateCursorValue(descriptor(node), value, "Cursor")
    IN IF values = <<>> THEN qry
       ELSE IF checked.err # "none" THEN QryThrow(checked)
       ELSE IF value = Null THEN applyNullCursorValue(node, qry, childValues)
       ELSE applyCursorValue(node, qry, value, childValues)

\* values[0] of a too-short array is undefined.
applyCursorValues(node, qry, values) ==
    LET value == IF values = <<>> THEN Undefined ELSE Head(values)
        childValues == IF values = <<>> THEN <<>> ELSE Tail(values)
        checked == validateCursorValue(descriptor(node), value, "Cursor")
    IN IF checked.err # "none" THEN QryThrow(checked)
       ELSE IF value = Null THEN applyNullCursorValue(node, qry, childValues)
       ELSE applyCursorValue(node, qry, value, childValues)

(* ------------- the external executor: SQL WHERE and ORDER BY --------- *)
\* A comparison with a null column is never true in SQL.
RECURSIVE EvalWhereFrom(_, _, _, _)
RECURSIVE EvalClause(_, _)
EvalClause(c, row) ==
    CASE c.kind = "cmp" ->
            /\ row[c.column] # Null
            /\ IF c.op = ">" THEN row[c.column].v > c.value.v
               ELSE row[c.column].v < c.value.v
      [] c.kind = "eq" -> row[c.column] # Null /\ row[c.column] = c.value
      [] c.kind = "null" -> row[c.column] = Null
      [] c.kind = "notnull" -> row[c.column] # Null
      [] c.kind = "group" -> EvalWhereFrom(c.sub, 1, TRUE, row)

\* Clauses are joined flat by their connectors; AND binds tighter than OR,
\* and the connector of the first clause is dropped.
EvalWhereFrom(clauses, i, cur, row) ==
    IF i > Len(clauses) THEN cur
    ELSE IF clauses[i].bool = "or" /\ i > 1
    THEN cur \/ EvalWhereFrom(clauses, i + 1, EvalClause(clauses[i], row), row)
    ELSE EvalWhereFrom(clauses, i + 1, cur /\ EvalClause(clauses[i], row), row)

EvalWhere(clauses, row) == EvalWhereFrom(clauses, 1, TRUE, row)

Select(clauses, rows) == {r \in rows : EvalWhere(clauses, r)}

\* -1, 0, 1: r1 sorts before, with, after r2 under one ORDER BY term.
CompareTerm(term, r1, r2) ==
    LET k1 == IF term.kind = "isnull"
              THEN (IF r1[term.column] = Null THEN 1 ELSE 0)
              ELSE (IF r1[term.column] = Null THEN 0 ELSE r1[term.column].v)
        k2 == IF term.kind = "isnull"
              THEN (IF r2[term.column] = Null THEN 1 ELSE 0)
              ELSE (IF r2[term.column] = Null THEN 0 ELSE r2[term.column].v)
        asc == IF k1 < k2 THEN -1 ELSE IF k1 > k2 THEN 1 ELSE 0
    IN IF term.order = "asc" THEN asc ELSE -asc

RECURSIVE CompareRows(_, _, _)
CompareRows(terms, r1, r2) ==
    IF terms = <<>> THEN 0
    ELSE LET c == CompareTerm(Head(terms), r1, r2)
         IN IF c # 0 THEN c ELSE CompareRows(Tail(terms), r1, r2)

\* r2 comes strictly after r1 in the order of the terms.
After(terms, r1, r2) == CompareRows(terms, r1, r2) < 0

\* The results a database may return for the rows under ORDER BY terms and
\* LIMIT n: rows that tie on every term come in any order.
RECURSIVE Fetch(_, _, _)
Fetch(terms, rows, n) ==
    IF rows = {} \/ n = 0 THEN {<<>>}
    ELSE UNION {{<<m>> \o s : s \in Fetch(terms, rows \ {m}, n - 1)} :
                   m \in {x \in rows :
                             \A y \in rows : CompareRows(terms, x, y) <= 0}}

(* ------------------- inputs of the bounded check --------------------- *)
Descriptors(column) ==
    {ConcreteSortDescriptor(column, "integer", n, dir) :
        n \in BOOLEAN, dir \in SortDirection}

\* createSortNode: the chains of 1..MaxChain descriptors, column i at
\* position i.
Chains ==
    UNION {{c \in [1..n -> UNION {Descriptors(Col(i)) : i \in 1..n}] :
               \A i \in 1..n : c[i].column = Col(i)} : n \in 1..MaxChain}

Entities == [Columns -> EntityVals]

\* What a row holding the entity's values looks like in the database.
RowOf(entity) ==
    [c \in Columns |-> IF entity[c] = Undefined THEN Null ELSE entity[c]]

\* The rows a table can hold: a column is null only where it is nullable.
Rows(columns, chain) ==
    {r \in [columns -> DbVals] :
        \A i \in 1..Len(chain) :
            r[chain[i].column] = Null => chain[i].nullable}

Dataset(chain) == Rows(Columns, chain)

\* The table behind the paginator has two columns; its declared sort is a
\* chain over one or both of them.
TableColumns == {Col(1), Col(2)}
Table(chain) == Rows(TableColumns, chain)
\* The declared sort: any descriptor on column 1, alone or followed by an
\* ascending tie-break on column 2.
PagingChains ==
    {<<h>> : h \in Descriptors(Col(1))}
        \cup {<<h, ConcreteSortDescriptor(Col(2), "integer", n, "asc")>> :
                  h \in Descriptors(Col(1)), n \in BOOLEAN}

GivenValues == UNION {[1..n -> CursorVals] : n \in 0..MaxChain}

NoQry == [err |-> "unset", msg |-> "", clauses |-> <<>>]
NoValues == [err |-> "unset", msg |-> "", values |-> <<>>]
NoEntity == [c \in Columns |-> Undefined]

(* ------------------------------ cursor.ts ----------------------------- *)
\* An optional array: undefined, or an array of column values.
NoArr == [t |-> "undef", items |-> <<>>]
Arr(items) == [t |-> "arr", items |-> items]

EmptyStr == StrVal(0)

\* JavaScript truthiness of a string-or-undefined and of an array-or-undefined.
Truthy(x) == x.t \notin {"undef", "null"} /\ ~(x.t \in {"str", "int"} /\ x.v = 0)
TruthyArr(x) == x.t \notin {"undef", "null"}

Cursor(query, sort, values, argsHash) ==
    [query |-> query, sort |-> sort, values |-> values, argsHash |-> argsHash]

\* An absent key of the abbreviated object reads as undefined.
toObject(c) ==
    [q |-> c.query, s |-> c.sort,
     a |-> IF Truthy(c.argsHash) THEN c.argsHash ELSE Undefined,
     v |-> IF TruthyArr(c.values) THEN c.values ELSE NoArr]

\* encodeObject: the URL-safe encoding of the object's JSON text, in which an
\* undefined array entry is written as null.
JsonItems(items) ==
    [i \in 1..Len(items) |-> IF items[i] = Undefined THEN Null ELSE items[i]]
encodeObject(obj) ==
    [kind |-> "json",
     obj |-> [q |-> obj.q, s |-> obj.s, a |-> obj.a,
              v |-> IF obj.v.t = "arr" THEN Arr(JsonItems(obj.v.items))
                    ELSE obj.v]]

serialize(c) == encodeObject(toObject(c))

\* No cursor string at all (undefined or null).
NoCursor == [kind |-> "none",
             obj |-> [q |-> Undefined, s |-> Undefined, a |-> Undefined,
                      v |-> NoArr]]

fromObject(obj) == Cursor(obj.q, obj.s, obj.v, obj.a)

\* The info an error carries: the offending value under its key and, for the
\* identity checks of the paginator, the expected value as well.
Info(key, value, expected) ==
    [key |-> key, value |-> value, expected |-> expected]
NoInfo == Info("", Undefined, Undefined)
NoCause == "null"

NoCursorObj == Cursor(Undefined, Undefined, NoArr, Undefined)
ParseOk(c) ==
    [err |-> "none", msg |-> "", cursor |-> c, info |-> NoInfo,
     cause |-> NoCause]
ParseThrow(msg, info, cause) ==
    [err |-> "InvalidCursorError", msg |-> msg, cursor |-> NoCursorObj,
     info |-> info, cause |-> cause]

\* lodash predicates on a decoded JSON value.  A scalar is a tagged value, an
\* array carries its items, an object is the record of its properties.
isObjectLike(value) == "t" \notin DOMAIN value \/ value.t = "arr"
isString(value) == value.t = "str"
isArray(value) == value.t = "arr"

\* value[k] of an object-like value: undefined when the property is absent.
Get(value, k) ==
    IF k \in DOMAIN value THEN value[k]
    ELSE IF k = "v" THEN NoArr ELSE Undefined

\* Mutation: the 'a' property is not checked.
validateObject_noArgsCheck(value) ==
    IF ~isObjectLike(value)
    THEN ParseThrow("Cursor is not object-like",
                    Info("cursor", value, Undefined), NoCause)
    ELSE IF ~isString(Get(value, "q"))
    THEN ParseThrow("Cursor 'q' is not a string",
                    Info("q", Get(value, "q"), Undefined), NoCause)
    ELSE IF ~isString(Get(value, "s"))
    THEN ParseThrow("Cursor 's' is not a string",
                    Info("s", Get(value, "s"), Undefined), NoCause)
    ELSE IF Get(value, "v").t # "undef" /\ ~isArray(Get(value, "v"))
    THEN ParseThrow("Cursor 'v' is not an array",
                    Info("v", Get(value, "v"), Undefined), NoCause)
    ELSE ParseOk(fromObject(value))

\* Cursor.validateObject followed by Cursor.fromObject.
validateObject(value) ==
    IF ~isObjectLike(value)
    THEN ParseThrow("Cursor is not object-like",
                    Info("cursor", value, Undefined), NoCause)
    ELSE IF ~isString(Get(value, "q"))
    THEN ParseThrow("Cursor 'q' is not a string",
                    Info("q", Get(value, "q"), Undefined), NoCause)
    ELSE IF ~isString(Get(value, "s"))
    THEN ParseThrow("Cursor 's' is not a string",
                    Info("s", Get(value, "s"), Undefined), NoCause)
    ELSE IF Get(value, "a").t # "undef" /\ ~isString(Get(value, "a"))
    THEN ParseThrow("Cursor 'a' is not a string",
                    Info("a", Get(value, "a"), Undefined), NoCause)
    ELSE IF Get(value, "v").t # "undef" /\ ~isArray(Get(value, "v"))
    THEN ParseThrow("Cursor 'v' is not an array",
                    Info("v", Get(value, "v"), Undefined), NoCause)
    ELSE ParseOk(fromObject(value))

\* decodeObject of the string: the decoded JSON value, an InvalidJsonError
\* when the text is not JSON, or another error of the decoder.
decodeObject(s) ==
    CASE s.kind = "json" -> [err |-> "none", value |-> s.obj]
      [] s.kind = "badjson" -> [err |-> "InvalidJsonError", value |-> Undefined]
      [] OTHER -> [err |-> "Error", value |-> Undefined]

\* Mutation: every failure of the decoder is wrapped.
parse_wrapAll(s) ==
    LET d == decodeObject(s)
    IN IF d.err # "none"
       THEN ParseThrow("Cursor contains invalid JSON",
                       Info("cursor", s, Undefined), d.err)
       ELSE validateObject(d.value)

\* Cursor.parse: an InvalidJsonError of the decoder is wrapped, any other
\* error of the decoder is rethrown as it is.
parse(s) ==
    LET d == decodeObject(s)
    IN IF d.err = "InvalidJsonError"
       THEN ParseThrow("Cursor contains invalid JSON",
                       Info("cursor", s, Undefined), d.err)
       ELSE IF d.err # "none"
       THEN [err |-> d.err, msg |-> "decodeObject error",
             cursor |-> NoCursorObj, info |-> NoInfo, cause |-> NoCause]
       ELSE validateObject(d.value)

(* ------------- lib/cursor.ts, the Cursor of the paginator ------------- *)
\* The Cursor that paginator.ts imports has a query, a sort and values and
\* knows no args hash: the field of the record stays undefined, an `a` of
\* the abbreviated object is neither checked nor read nor written.
Cursor_fromObject(obj) == Cursor(obj.q, obj.s, obj.v, Undefined)

Cursor_toObject(c) ==
    [q |-> c.query, s |-> c.sort, a |-> Undefined,
     v |-> IF TruthyArr(c.values) THEN c.values ELSE NoArr]

Cursor_serialize(c) == encodeObject(Cursor_toObject(c))

\* Cursor.validateObject followed by Cursor.fromObject.
Cursor_validateObject(value) ==
    IF ~isObjectLike(value)
    THEN ParseThrow("Cursor is not object-like",
                    Info("cursor", value, Undefined), NoCause)
    ELSE IF ~isString(Get(value, "q"))
    THEN ParseThrow("Cursor 'q' is not a string",
                    Info("q", Get(value, "q"), Undefined), NoCause)
    ELSE IF ~isString(Get(value, "s"))
    THEN ParseThrow("Cursor 's' is not a string",
                    Info("s", Get(value, "s"), Undefined), NoCause)
    ELSE IF Get(value, "v").t # "undef" /\ ~isArray(Get(value, "v"))
    THEN ParseThrow("Cursor 'v' is not an array",
                    Info("v", Get(value, "v"), Undefined), NoCause)
    ELSE ParseOk(Cursor_fromObject(value))

\* Cursor.parse
Cursor_parse(s) ==
    LET d == decodeObject(s)
    IN IF d.err = "InvalidJsonError"
       THEN ParseThrow("Cursor contains invalid JSON",
                       Info("cursor", s, Undefined), d.err)
       ELSE IF d.err # "none"
       THEN [err |-> d.err, msg |-> "decodeObject error",
             cursor |-> NoCursorObj, info |-> NoInfo, cause |-> NoCause]
       ELSE Cursor_validateObject(d.value)

(* ----------------------------- paginator.ts --------------------------- *)
\* Paginator._getQueryName: the static queryName, or the class name.
QueryName == StrVal(1)
DefaultSort == "default"

\* new SortNode(descriptors): the node of the first descriptor, linked to the
\* node built from the remaining ones; no node without a descriptor.
RECURSIVE SortNode(_)
SortNode(descriptors) ==
    IF descriptors = <<>>
    THEN [err |-> "TypeError",
          msg |-> "At least one sort descriptor is required", node |-> <<>>]
    ELSE LET subdescriptors == Tail(descriptors)
         IN IF subdescriptors # <<>>
            THEN [err |-> "none", msg |-> "",
                  node |-> <<Head(descriptors)>> \o SortNode(subdescriptors).node]
            ELSE [err |-> "none", msg |-> "", node |-> <<Head(descriptors)>>]

(* ---------- column.ts, concrete-sort-descriptor.ts, create-sort-node.ts *)
\* Column._columnPattern, /^(?:[^.]+\.)?[^.]+$/ : one or more characters
\* other than the dot, optionally preceded by one or more such characters
\* and one dot.
NonDots(id) == Len(id) >= 1 /\ \A i \in 1..Len(id) : id[i] # "."

columnPattern(id) ==
    \/ NonDots(id)
    \/ \E i \in 1..Len(id) :
          /\ id[i] = "."
          /\ NonDots(SubSeq(id, 1, i - 1))
          /\ NonDots(SubSeq(id, i + 1, Len(id)))

ConfigThrow(msg) == [err |-> "ConfigurationError", msg |-> msg, d |-> <<>>]

\* Column.validate
validate(id) ==
    IF columnPattern(id)
    THEN [err |-> "none", msg |-> "", d |-> id]
    ELSE ConfigThrow("Invalid column identifier")

\* A declared raw is a string, the shortcut for {column: string}, or
\* an object holding the column and any of the optional properties.
isShortcut(raw) == "shortcut" \in DOMAIN raw

\* _.defaults: the property of the raw if it has one, else the default.
defaults(raw, key, default) ==
    IF key \in DOMAIN raw THEN raw[key] ELSE default

\* Mutation: the direction is not validated.
newConcreteSortDescriptor_anyDirection(raw) ==
    LET d0 == IF isShortcut(raw)
              THEN [column |-> raw.shortcut]
              ELSE raw
        this == [column |-> d0.column,
                 columnType |-> defaults(d0, "columnType", "string"),
                 nullable |-> defaults(d0, "nullable", FALSE),
                 direction |-> defaults(d0, "direction", "asc"),
                 valuePath |-> defaults(d0, "valuePath", d0.column),
                 validate |-> defaults(d0, "validate", "none")]
        checked(column) ==
            IF column.err # "none"
            THEN column
            ELSE IF this.columnType \notin ColumnType
            THEN ConfigThrow("Unknown column type")
            ELSE [err |-> "none", msg |-> "", d |-> this]
    IN checked(validate(this.column))

\* new ConcreteSortDescriptor(descriptor): the shortcut is expanded, the
\* given properties are taken over (a validation function among them), the
\* omitted ones take their defaults, then the column, the column type and
\* the direction are validated, in this order.
newConcreteSortDescriptor(raw) ==
    LET d0 == IF isShortcut(raw)
              THEN [column |-> raw.shortcut]
              ELSE raw
        this == [column |-> d0.column,
                 columnType |-> defaults(d0, "columnType", "string"),
                 nullable |-> defaults(d0, "nullable", FALSE),
                 direction |-> defaults(d0, "direction", "asc"),
                 valuePath |-> defaults(d0, "valuePath", d0.column),
                 validate |-> defaults(d0, "validate", "none")]
        checked(column) ==
            IF column.err # "none"
            THEN column
            ELSE IF this.columnType \notin ColumnType
            THEN ConfigThrow("Unknown column type")
            ELSE IF this.direction \notin SortDirection
            THEN ConfigThrow("Unknown sort direction")
            ELSE [err |-> "none", msg |-> "", d |-> this]
    IN checked(validate(this.column))

\* createSortNode: the descriptors are made concrete one after the other,
\* the first failure ends the call; the node is built from all of them.
createSortNode(descriptors) ==
    LET linked(made) ==
            LET failed == {i \in 1..Len(made) : made[i].err # "none"}
            IN IF failed # {}
               THEN LET first == CHOOSE i \in failed :
                                     \A j \in failed : i <= j
                    IN [err |-> made[first].err, msg |-> made[first].msg,
                        node |-> <<>>]
               ELSE SortNode([i \in 1..Len(made) |-> made[i].d])
    IN linked([i \in 1..Len(descriptors) |->
                newConcreteSortDescriptor(descriptors[i])])

\* The sort names in the key order of Paginator.sorts.
SortNames == <<"default", "other">>
DeclaredNames(declared) ==
    SelectSeq(SortNames, LAMBDA name : name \in DOMAIN declared)

\* Paginator._createSortNodes: mapValues calls createSortNode on every
\* declared sort, in key order; the first failure ends it.
createSortNodes(declared) ==
    LET names == DeclaredNames(declared)
        mapped(values) ==
            LET failing == {i \in 1..Len(names) :
                               values[names[i]].err # "none"}
            IN IF failing # {}
               THEN LET first == CHOOSE i \in failing :
                                     \A j \in failing : i <= j
                    IN [err |-> values[names[first]].err,
                        msg |-> values[names[first]].msg, nodes |-> <<>>]
               ELSE [err |-> "none", msg |-> "",
                     nodes |-> [name \in DOMAIN declared |->
                                   values[name].node]]
    IN mapped([name \in DOMAIN declared |-> createSortNode(declared[name])])

\* Mutation: the stored nodes are not looked at.
getSortNodes_rebuild(cache, declared) ==
    LET assigned(r) ==
            IF r.err # "none"
            THEN [err |-> r.err, msg |-> r.msg, cache |-> cache,
                  created |-> TRUE]
            ELSE [err |-> "none", msg |-> "",
                  cache |-> [built |-> TRUE, nodes |-> r.nodes],
                  created |-> TRUE]
    IN assigned(createSortNodes(declared))

\* Paginator._getSortNodes: the stored nodes, created and stored on first use;
\* nothing is stored when creating them fails.
getSortNodes(cache, declared) ==
    LET assigned(r) ==
            IF r.err # "none"
            THEN [err |-> r.err, msg |-> r.msg, cache |-> cache,
                  created |-> TRUE]
            ELSE [err |-> "none", msg |-> "",
                  cache |-> [built |-> TRUE, nodes |-> r.nodes],
                  created |-> TRUE]
    IN IF cache.built
       THEN [err |-> "none", msg |-> "", cache |-> cache, created |-> FALSE]
       ELSE assigned(createSortNodes(declared))

QueryOk(clauses, terms) ==
    [err |-> "none", msg |-> "", info |-> NoInfo, clauses |-> clauses,
     orderBy |-> terms]
QueryThrow(cls, msg, info) ==
    [err |-> cls, msg |-> msg, info |-> info, clauses |-> <<>>,
     orderBy |-> <<>>]

\* Sort names are strings in the paginator and string values in cursors.
SortId(sort) ==
    CASE sort = DefaultSort -> StrVal(1)
      [] sort = "other" -> StrVal(2)
      [] sort = "constructor" -> StrVal(4)
      [] OTHER -> StrVal(3)

\* The names every JavaScript object inherits a property for.
InheritedNames == {"constructor"}

\* Paginator#_getSortNode: the property of the nodes object under the sort
\* name, if it is truthy.  The nodes object is a plain object, so the name of
\* an inherited property yields that property, which is not a sort node.
getSortNode(nodes, sort) ==
    IF sort \in DOMAIN nodes
    THEN [err |-> "none", msg |-> "", info |-> NoInfo, kind |-> "node",
          node |-> nodes[sort]]
    ELSE IF sort \in InheritedNames
    THEN [err |-> "none", msg |-> "", info |-> NoInfo, kind |-> "inherited",
          node |-> <<>>]
    ELSE [err |-> "UnknownSortError", msg |-> "Unknown sort",
          info |-> Info("sort", SortId(sort), Undefined), kind |-> "none",
          node |-> <<>>]

\* Mutation: a cursor without an args hash is turned away.
validateCursor_requiresArgsHash(c, sort) ==
    IF c.query # QueryName
    THEN ParseThrow("Cursor is for a different query",
                    Info("cursorQuery", c.query, QueryName), NoCause)
    ELSE IF c.sort # sort
    THEN ParseThrow("Cursor is for a different sort",
                    Info("cursorSort", c.sort, sort), NoCause)
    ELSE IF c.argsHash = Undefined
    THEN ParseThrow("Args hash mismatch", NoInfo, NoCause)
    ELSE ParseOk(c)

\* Paginator#_validateCursor
validateCursor(c, sort) ==
    IF c.query # QueryName
    THEN ParseThrow("Cursor is for a different query",
                    Info("cursorQuery", c.query, QueryName), NoCause)
    ELSE IF c.sort # sort
    THEN ParseThrow("Cursor is for a different sort",
                    Info("cursorSort", c.sort, sort), NoCause)
    ELSE ParseOk(c)

\* Mutation: the parsed cursor is used without the identity checks.
parseCursor_noValidate(s, sort) ==
    Cursor_parse(s)

\* Paginator#_parseCursor
parseCursor(s, sort) ==
    LET c == Cursor_parse(s)
    IN IF c.err # "none" THEN c ELSE validateCursor(c.cursor, sort)

\* Mutation: a cursor without values is read as one with an empty array.
getCursorValuesOf_emptyArray(s, sort) ==
    IF s.kind = "none" THEN ParseOk(NoCursorObj)
    ELSE LET c == parseCursor(s, sort)
         IN IF c.err = "none" /\ c.cursor.values = NoArr
            THEN ParseOk([c.cursor EXCEPT !.values = Arr(<<>>)])
            ELSE c

\* Paginator#_getCursorValues: no values without a cursor string.
getCursorValuesOf(s, sort) ==
    IF s.kind = "none" THEN ParseOk(NoCursorObj) ELSE parseCursor(s, sort)

\* Mutation: the cursor values are never applied.
apply_orderOnly(sortNode, clauses, values) ==
    QueryOk(clauses, applyOrder(sortNode))

\* SortNode#apply on the base query: the order, then the cursor filter when
\* the cursor carries values.
apply(sortNode, clauses, values) ==
    IF TruthyArr(values)
    THEN LET q == applyCursorValues(sortNode, Qry(clauses), values.items)
         IN IF q.err # "none" THEN QueryThrow(q.err, q.msg, NoInfo)
            ELSE QueryOk(q.clauses, applyOrder(sortNode))
    ELSE QueryOk(clauses, applyOrder(sortNode))

\* Paginator#_applySortNode: the sort node is looked up first, the cursor is
\* parsed next, and the node is applied last.  An inherited function in the
\* place of the node has an `apply` of its own, which leaves the query alone.
applySortNode(nodes, pg, baseClauses, cursorStr) ==
    LET n == getSortNode(nodes, pg.sort)
    IN IF n.err # "none" THEN QueryThrow(n.err, n.msg, n.info)
       ELSE LET c == getCursorValuesOf(cursorStr, SortId(pg.sort))
            IN IF c.err # "none" THEN QueryThrow(c.err, c.msg, c.info)
               ELSE IF n.kind = "inherited" THEN QueryOk(baseClauses, <<>>)
               ELSE apply(n.node, baseClauses, c.cursor.values)

\* Mutation: the cursor is not looked at.
getQuery_ignoreCursor(nodes, pg, baseClauses, cursorStr) ==
    applySortNode(nodes, pg, baseClauses, NoCursor)

\* Paginator#_getQuery: base query, sort node (with the values of the cursor,
\* if one is given) and limit.
getQuery(nodes, pg, baseClauses, cursorStr) ==
    applySortNode(nodes, pg, baseClauses, cursorStr)

\* Mutation: a cursor without values is minted for every item.
createCursorString_noValues(nodes, pg, item) ==
    [err |-> "none", msg |-> "",
     str |-> Cursor_serialize(Cursor(QueryName, SortId(pg.sort), NoArr,
                                     Undefined))]

\* Paginator#_createCursorString for the last item of a page.
createCursorString(nodes, pg, item) ==
    LET n == getSortNode(nodes, pg.sort)
    IN IF n.err # "none"
       THEN [err |-> n.err, msg |-> n.msg, str |-> NoCursor]
       ELSE IF n.kind = "inherited"
       THEN [err |-> "TypeError", msg |-> "getCursorValues is not a function",
             str |-> NoCursor]
       ELSE LET got == getCursorValues(n.node, item)
            IN IF got.err # "none"
               THEN [err |-> got.err, msg |-> got.msg, str |-> NoCursor]
               ELSE [err |-> "none", msg |-> "",
                     str |-> Cursor_serialize(
                                 Cursor(QueryName, SortId(pg.sort),
                                        Arr(got.values), Undefined))]

\* Paginator#_createCursorString without an item.
createEmptyCursorString(pg) ==
    Cursor_serialize(Cursor(QueryName, SortId(pg.sort), NoArr, Undefined))

\* Mutation: the remaining rows are counted after every page.
getRemainingCount_always(clauses, rows, itemCount, limit) ==
    [counted |-> TRUE,
     remaining |-> Cardinality(Select(clauses, rows)) - itemCount]

\* Paginator#_getRemainingCount: no count query after a short page; else
\* resultSize, the number of rows the query selects when the count is taken.
getRemainingCount(clauses, rows, itemCount, limit) ==
    IF itemCount < limit THEN [counted |-> FALSE, remaining |-> 0]
    ELSE [counted |-> TRUE,
          remaining |-> Cardinality(Select(clauses, rows)) - itemCount]

(* --------------------------- state ----------------------------------- *)
VARIABLES
    node,          \* the SortNode under use
    entity,        \* the entity cursor values are extracted from
    cursorValues,  \* result of getCursorValues, or the values handed in
    qry,           \* the builder's WHERE clauses after SortNode#apply
    orderBy,       \* the builder's ORDER BY terms after SortNode#apply
    pc,            \* which operation ran last
    cursor,        \* a Cursor object
    str,           \* a serialized cursor string
    parsed,        \* result of Cursor.parse
    db,            \* the rows of the table behind the base query
    sorts,         \* Paginator.sorts: the declared sorts of the paginator type
    sortNodes,     \* Paginator._sortNodes: the cached sort nodes, once built
    paginator,     \* the Paginator instance: limit, sort name and args
    base,          \* the WHERE clauses of getBaseQuery()
    items,         \* the rows fetched by the execute in progress
    page,          \* the page (or error) the last execute returned
    pages,         \* the items of all pages returned so far, in sequence
    held,          \* the cursor string the client holds for the next call
    calls,         \* number of execute calls started
    muts,          \* number of inserts and deletes so far
    issued,        \* the queries the last execute sent to the database
    builds,        \* number of runs of Paginator._createSortNodes
    remaining,     \* execute's local `remaining` while the call is under way
    minted,        \* the Paginator instance that minted the held cursor
    declared,      \* the sort descriptors as declared, before normalization
    created,       \* result of createSortNode on the declared descriptors
    given,         \* the value and validation case handed to a descriptor
    validated,     \* result of validateCursorValue on the given value
    typeSorts,     \* the static sorts of a paginator type and of its subtype
    typeNodes,     \* the own _sortNodes property of each of the two types
    resolved       \* the type, sort name and sort node of the last lookup

nodeVars == <<node, entity, cursorValues, qry, orderBy>>
codecVars == <<cursor, str, parsed>>
configVars == <<declared, created>>
validateVars == <<given, validated>>
typeVars == <<typeSorts, typeNodes, resolved>>
executeVars == <<db, sorts, sortNodes, paginator, base, items, page, pages,
                 held, calls, muts, issued, builds, remaining, minted>>
otherVars == <<configVars, validateVars, typeVars>>
pagingVars == <<executeVars, otherVars>>
vars == <<node, entity, cursorValues, qry, orderBy, pc, cursor, str, parsed,
          db, sorts, sortNodes, paginator, base, items, page, pages, held,
          calls, muts, issued, builds, remaining, minted, declared, created,
          given,
          validated, typeSorts, typeNodes, resolved>>

NoParse == [err |-> "unset", msg |-> "", cursor |-> NoCursorObj,
            info |-> NoInfo, cause |-> NoCause]
NoPage == [err |-> "unset", msg |-> "", info |-> NoInfo, items |-> <<>>,
           remaining |-> 0, cursor |-> NoCursor]
NoInstance == [limit |-> 0, sort |-> "", args |-> Undefined]
NoSortNodes == [built |-> FALSE, nodes |-> <<>>]
NoCreated == [err |-> "unset", msg |-> "", node |-> <<>>]
NoGiven == [value |-> Undefined, validationCase |-> ""]
NoValidated == [err |-> "unset", msg |-> "", value |-> Undefined,
                calls |-> <<>>]
NoResolved == [type |-> "", sort |-> "", err |-> "unset", node |-> <<>>]

\* The variables of the descriptor and type checks while these are not run.
OthersIdle ==
    /\ given = NoGiven
    /\ validated = NoValidated
    /\ typeSorts = <<>>
    /\ typeNodes = <<>>
    /\ resolved = NoResolved

\* The paging variables while no paginator is in use.
PagingIdle ==
    /\ db = {}
    /\ sorts = <<>>
    /\ sortNodes = NoSortNodes
    /\ paginator = NoInstance
    /\ base = <<>>
    /\ items = <<>>
    /\ page = NoPage
    /\ pages = <<>>
    /\ held = NoCursor
    /\ calls = 0
    /\ muts = 0
    /\ issued = <<>>
    /\ builds = 0
    /\ remaining = 0
    /\ minted = NoInstance
    /\ declared = <<>>
    /\ created = NoCreated
    /\ OthersIdle

(* --------------- SortNode operations on an empty builder ------------- *)
NodeInit ==
    /\ node \in Chains
    /\ entity \in Entities
    /\ cursorValues = NoValues
    /\ qry = NoQry
    /\ orderBy = <<>>
    /\ pc = "new"
    /\ cursor = NoCursorObj
    /\ str = NoCursor
    /\ parsed = NoParse
    /\ PagingIdle

\* SortNode#getCursorValues on the entity.
GetCursorValues ==
    /\ pc = "new"
    /\ cursorValues' = getCursorValues(node, entity)
    /\ pc' = "extracted"
    /\ UNCHANGED <<node, entity, qry, orderBy, codecVars, pagingVars>>

\* SortNode#apply with the values extracted from the entity.
ApplyExtracted ==
    /\ pc = "extracted"
    /\ cursorValues.err = "none"
    /\ orderBy' = applyOrder(node)
    /\ qry' = applyCursorValues(node, Qry(<<>>), cursorValues.values)
    /\ pc' = "applied"
    /\ UNCHANGED <<node, entity, cursorValues, codecVars, pagingVars>>

\* SortNode#apply with values that arrive in a cursor.
ApplyGiven ==
    /\ pc = "new"
    /\ entity = NoEntity
    /\ \E values \in GivenValues :
          /\ cursorValues' = [err |-> "none", msg |-> "", values |-> values]
          /\ qry' = applyCursorValues(node, Qry(<<>>), values)
    /\ orderBy' = applyOrder(node)
    /\ pc' = "given"
    /\ UNCHANGED <<node, entity, codecVars, pagingVars>>

\* SortNode#apply without cursor values.
ApplyNone ==
    /\ pc = "new"
    /\ entity = NoEntity
    /\ orderBy' = applyOrder(node)
    /\ qry' = Qry(<<>>)
    /\ pc' = "ordered"
    /\ UNCHANGED <<node, entity, cursorValues, codecVars, pagingVars>>

NodeNext == GetCursorValues \/ ApplyExtracted \/ ApplyGiven \/ ApplyNone

SpecNode == NodeInit /\ [][NodeNext]_vars

(* ======================= SortNode: the claims ======================== *)
NoNullable(chain) == \A i \in 1..Len(chain) : ~chain[i].nullable

ValidNonNull(chain, values) ==
    /\ Len(values) >= Len(chain)
    /\ \A i \in 1..Len(chain) : values[i] \in IntVals

\* C1: for every chain and every row R, the filter built from the cursor
\* values extracted from R selects exactly the rows that come strictly after
\* R under the chain's own ORDER BY terms.
C1_RoundTripSelectsAfter ==
    (pc = "applied" /\ qry.err = "none") =>
        \A r \in Dataset(node) :
            EvalWhere(qry.clauses, r) <=> After(orderBy, RowOf(entity), r)

\* The keyset disjunction c1 OP1 v1 OR (c1 = v1 AND (c2 OP2 v2 OR ...)).
RECURSIVE KeysetAfter(_, _, _)
KeysetAfter(chain, values, row) ==
    LET d == Head(chain)
        v == Head(values)
        past == IF d.direction = "asc" THEN row[d.column].v > v.v
                ELSE row[d.column].v < v.v
    IN IF Len(chain) = 1 THEN past
       ELSE past \/ (row[d.column] = v
                     /\ KeysetAfter(Tail(chain), Tail(values), row))

\* C4: for a chain of n non-nullable columns and n valid non-null values the
\* filter is the keyset disjunction, with '>' on ascending columns and '<'
\* on descending and descending-nulls-last columns.
C4_KeysetDisjunction ==
    (pc = "given" /\ NoNullable(node)
        /\ ValidNonNull(node, cursorValues.values)) =>
        /\ qry.err = "none"
        /\ \A r \in Dataset(node) :
              EvalWhere(qry.clauses, r)
                  <=> KeysetAfter(node, cursorValues.values, r)

C4_Witness ==
    /\ pc = "given" /\ NoNullable(node) /\ Len(node) = MaxChain
    /\ ValidNonNull(node, cursorValues.values)
    /\ node[1].direction = "asc" /\ node[MaxChain].direction = "descnl"
    /\ \E r \in Dataset(node) :
          r[Col(1)] = cursorValues.values[1] /\ EvalWhere(qry.clauses, r)
    /\ \E r \in Dataset(node) :
          r[Col(1)] = cursorValues.values[1] /\ ~EvalWhere(qry.clauses, r)
    /\ \E r \in Dataset(node) :
          r[Col(1)] # cursorValues.values[1] /\ EvalWhere(qry.clauses, r)

\* C5: a single nullable column and the boundary [null]: no row is selected,
\* whatever the direction.
C5_NullBoundarySelectsNothing ==
    (pc = "given" /\ Len(node) = 1 /\ node[1].nullable
        /\ cursorValues.values = <<Null>>) =>
        /\ qry.err = "none"
        /\ Select(qry.clauses, Dataset(node)) = {}

\* Rows that tie on the columns before position i.
TiedBefore(i, r1, r2) == \A j \in 1..(i - 1) : r1[Col(j)] = r2[Col(j)]

NullsBefore(i) ==
    \A r1, r2 \in Dataset(node) :
        (TiedBefore(i, r1, r2) /\ r1[Col(i)] = Null /\ r2[Col(i)] # Null)
            => After(orderBy, r1, r2)

NullsAfter(i) ==
    \A r1, r2 \in Dataset(node) :
        (TiedBefore(i, r1, r2) /\ r1[Col(i)] = Null /\ r2[Col(i)] # Null)
            => After(orderBy, r2, r1)

\* C6 as stated: under the emitted ORDER BY terms null rows of a nullable
\* column sort before the non-null rows for ascending and plain descending,
\* after them for descending-nulls-last.
C6_NullsFirstUnlessNullsLast ==
    (pc \in {"applied", "given", "ordered"}) =>
        \A i \in 1..Len(node) :
            node[i].nullable =>
                IF node[i].direction \in {"asc", "desc"} THEN NullsBefore(i)
                ELSE NullsAfter(i)

\* C6 amended: null rows of a nullable column sort after the non-null rows
\* for ascending and descending-nulls-last, before them for plain descending.
C6_NullPlacement ==
    (pc \in {"applied", "given", "ordered"}) =>
        \A i \in 1..Len(node) :
            node[i].nullable =>
                IF node[i].direction = "desc" THEN NullsBefore(i)
                ELSE NullsAfter(i)

C6_Witness ==
    /\ pc = "ordered" /\ Len(node) = MaxChain
    /\ node[MaxChain].nullable /\ node[MaxChain].direction = "asc"
    /\ node[1].nullable /\ node[1].direction = "desc"

NullableCount(chain) == Cardinality({i \in 1..Len(chain) : chain[i].nullable})

\* C8 as stated: n ORDER BY terms for a chain of n non-nullable columns, 2n
\* terms as soon as one column is nullable.
C8_TermsDoubleWhenAnyNullable ==
    (pc \in {"applied", "given", "ordered"}) =>
        Len(orderBy) = IF NoNullable(node) THEN Len(node) ELSE 2 * Len(node)

\* C8 amended: one value term per column plus one is-null term, placed right
\* before it, for every nullable column only.
C8_TermsPerNullableColumn ==
    (pc \in {"applied", "given", "ordered"}) =>
        /\ Len(orderBy) = Len(node) + NullableCount(node)
        /\ \A k \in 1..Len(orderBy) :
              orderBy[k].kind = "isnull" =>
                  /\ k < Len(orderBy)
                  /\ orderBy[k + 1].kind = "value"
                  /\ orderBy[k + 1].column = orderBy[k].column
                  /\ \E i \in 1..Len(node) :
                        /\ node[i].column = orderBy[k].column
                        /\ node[i].nullable
        /\ \A i \in 1..Len(node) :
              \E k \in 1..Len(orderBy) :
                  /\ orderBy[k].kind = "value"
                  /\ orderBy[k].column = node[i].column

C8_Witness ==
    /\ pc = "ordered" /\ Len(node) = MaxChain
    /\ node[1].nullable /\ ~node[MaxChain].nullable
    /\ Len(orderBy) = Len(node) + 1

NullMsg == "Cursor value is null, but column is not nullable"

\* Position i is the first one whose value fails validation, and it fails
\* because the value is null (or absent) on a non-nullable column.
FirstFailureIsNull(values, i) ==
    /\ i \in 1..Len(node) /\ ~node[i].nullable
    /\ values[i] \in {Null, Undefined}
    /\ \A j \in 1..(i - 1) :
          values[j] \in IntVals \/ (values[j] \in {Null, Undefined} /\ node[j].nullable)

\* C9: a null (or absent, normalised to null) value of a non-nullable column
\* raises ConfigurationError when met while extracting cursor values from an
\* entity and InvalidCursorError when met while applying cursor values, with
\* the same message, and no result is produced.
C9_ErrorClassByValidationCase ==
    /\ (pc = "extracted"
          /\ \E i \in 1..Len(node) :
                ~node[i].nullable /\ entity[Col(i)] \in {Null, Undefined}) =>
          /\ cursorValues.err = "ConfigurationError"
          /\ cursorValues.values = <<>>
          /\ \A i \in 1..Len(node) :
                FirstFailureIsNull([k \in 1..Len(node) |->
                                       entity[node[k].valuePath]], i) => cursorValues.msg = NullMsg
    /\ (pc = "given"
          /\ \E i \in 1..Len(node) :
                /\ ~node[i].nullable
                /\ i <= Len(cursorValues.values)
                /\ cursorValues.values[i] = Null) =>
          /\ qry.err = "InvalidCursorError"
          /\ qry.clauses = <<>>
          /\ \A i \in 1..Len(cursorValues.values) :
                (cursorValues.values[i] = Null
                    /\ FirstFailureIsNull(cursorValues.values, i))
                    => qry.msg = NullMsg

C9_WitnessExtract ==
    /\ pc = "extracted" /\ Len(node) = MaxChain
    /\ node[1].nullable /\ entity[Col(1)] = Null
    /\ ~node[MaxChain].nullable /\ entity[Col(MaxChain)] = Undefined
    /\ cursorValues.err = "ConfigurationError"

C9_Witness ==
    /\ pc = "given" /\ Len(node) = MaxChain
    /\ ~node[MaxChain].nullable
    /\ Len(cursorValues.values) = MaxChain
    /\ cursorValues.values[MaxChain] = Null
    /\ cursorValues.values[1] \in IntVals
    /\ qry.err = "InvalidCursorError" /\ qry.msg = NullMsg

(* ========================= the Cursor codec ========================== *)
QueryNames == {EmptyStr, StrVal(1)}
ArgsHashes == {Undefined, EmptyStr, StrVal(1)}
CursorArrays ==
    {NoArr} \cup {Arr(a) : a \in UNION {[1..n -> CursorVals] : n \in 0..MaxChain}}

CodecInit ==
    /\ cursor \in {Cursor(q, s, v, a) :
                      q \in QueryNames, s \in QueryNames,
                      v \in CursorArrays, a \in ArgsHashes}
    /\ str = NoCursor
    /\ parsed = NoParse
    /\ pc = "new"
    /\ node = <<>>
    /\ entity = NoEntity
    /\ cursorValues = NoValues
    /\ qry = NoQry
    /\ orderBy = <<>>
    /\ PagingIdle

\* Cursor#serialize
Serialize ==
    /\ pc = "new"
    /\ str' = serialize(cursor)
    /\ pc' = "serialized"
    /\ UNCHANGED <<nodeVars, cursor, parsed, pagingVars>>

\* Cursor.parse of the serialized string
Parse ==
    /\ pc = "serialized"
    /\ parsed' = parse(str)
    /\ pc' = "parsed"
    /\ UNCHANGED <<nodeVars, cursor, str, pagingVars>>

CodecNext == Serialize \/ Parse

SpecCursor == CodecInit /\ [][CodecNext]_vars

\* C10: parsing the serialization of a cursor yields a cursor with the same
\* query, sort, args hash and values, also for an empty args hash and for an
\* empty values array.
C10_ParseSerializeRoundTrip ==
    pc = "parsed" =>
        /\ parsed.err = "none"
        /\ parsed.cursor.query = cursor.query
        /\ parsed.cursor.sort = cursor.sort
        /\ parsed.cursor.argsHash = cursor.argsHash
        /\ parsed.cursor.values = cursor.values

(* ================= Cursor.parse of arbitrary strings ================== *)
\* The JSON values a property of the decoded payload can hold.
JsonScalars == {Null, EmptyStr, StrVal(1), IntVal(1)}
FieldVals == JsonScalars \cup {Undefined}
ArrayVals == {NoArr, Arr(<<>>), Arr(<<IntVal(1)>>), Null, StrVal(1)}

\* Decoded payloads: objects with any mix of properties, arrays and scalars.
Payloads ==
    {[q |-> q, s |-> s, a |-> a, v |-> v] :
        q \in FieldVals, s \in FieldVals, a \in FieldVals, v \in ArrayVals}
    \cup JsonScalars \cup {Arr(<<>>)}

\* Cursor strings: encodings of the payloads, a string that is not the
\* encoding of any JSON text, and a string the decoder fails on otherwise.
CursorStrings ==
    {[kind |-> "json", obj |-> p] : p \in Payloads}
    \cup {[kind |-> k, obj |-> NoCursor.obj] : k \in {"badjson", "fault"}}

DecodeInit ==
    /\ str \in CursorStrings
    /\ cursor = NoCursorObj
    /\ parsed = NoParse
    /\ pc = "serialized"
    /\ node = <<>>
    /\ entity = NoEntity
    /\ cursorValues = NoValues
    /\ qry = NoQry
    /\ orderBy = <<>>
    /\ PagingIdle

SpecDecode == DecodeInit /\ [][Parse]_vars

\* The first check of validateObject the payload fails, "" when it passes.
FirstFailing(p) ==
    IF ~("q" \in DOMAIN p \/ p.t = "arr") THEN "cursor"
    ELSE IF Get(p, "q").t # "str" THEN "q"
    ELSE IF Get(p, "s").t # "str" THEN "s"
    ELSE IF Get(p, "a") # Undefined /\ Get(p, "a").t # "str" THEN "a"
    ELSE IF Get(p, "v") # NoArr /\ Get(p, "v").t # "arr" THEN "v"
    ELSE ""

FailureMsg(k) ==
    CASE k = "cursor" -> "Cursor is not object-like"
      [] k = "q" -> "Cursor 'q' is not a string"
      [] k = "s" -> "Cursor 's' is not a string"
      [] k = "a" -> "Cursor 'a' is not a string"
      [] k = "v" -> "Cursor 'v' is not an array"

\* C11: a decoded payload is rejected with InvalidCursorError exactly when it
\* is not object-like, q or s is not a string, a is present and not a string,
\* or v is present and not an array; the error is the one of the first check
\* that fails, in that order, and carries the offending value; a payload that
\* passes yields a cursor with exactly the payload's field values.
C11_ValidateObjectFirstFailure ==
    (pc = "parsed" /\ str.kind = "json") =>
        LET p == str.obj
            k == FirstFailing(p)
        IN IF k = ""
           THEN /\ parsed.err = "none"
                /\ parsed.cursor = Cursor(p.q, p.s, p.v, p.a)
           ELSE /\ parsed.err = "InvalidCursorError"
                /\ parsed.msg = FailureMsg(k)
                /\ parsed.info.key = k
                /\ parsed.info.value = (IF k = "cursor" THEN p ELSE Get(p, k))
                /\ parsed.cause = NoCause

\* A payload with valid q and s whose a is present and not a string.
C11_Witness ==
    /\ pc = "parsed"
    /\ str.kind = "json"
    /\ FirstFailing(str.obj) = "a"
    /\ str.obj.v = Null
    /\ parsed.msg = "Cursor 'a' is not a string"

\* C12 as stated: whenever decoding the string fails, whatever the failure,
\* parse raises InvalidCursorError with the failure as cause and the raw
\* string in its info; no other error escapes.
C12_AnyDecodeFailureWrapped ==
    (pc = "parsed" /\ str.kind # "json") =>
        /\ parsed.err = "InvalidCursorError"
        /\ parsed.cause = decodeObject(str).err
        /\ parsed.info = Info("cursor", str, Undefined)

\* C12 amended: an InvalidJsonError of the decoder is wrapped in an
\* InvalidCursorError with that error as cause and the raw string in its
\* info; any other error of the decoder escapes parse unchanged; a string
\* that decodes raises nothing but InvalidCursorError.
C12_InvalidJsonWrappedOthersRethrown ==
    pc = "parsed" =>
        LET d == decodeObject(str)
        IN /\ d.err = "InvalidJsonError" =>
                /\ parsed.err = "InvalidCursorError"
                /\ parsed.msg = "Cursor contains invalid JSON"
                /\ parsed.cause = "InvalidJsonError"
                /\ parsed.info = Info("cursor", str, Undefined)
           /\ d.err \notin {"none", "InvalidJsonError"} =>
                /\ parsed.err = d.err
                /\ parsed.cause = NoCause
           /\ d.err = "none" => parsed.err \in {"none", "InvalidCursorError"}

C12_Witness ==
    /\ pc = "parsed"
    /\ str.kind = "fault"
    /\ parsed.err = "Error"

(* =================== Paginator#execute, page after page ============== *)
\* getBaseQuery(): the whole table, as in the repository's UserQuery.
BaseQueries == {<<>>}

PagingInit ==
    /\ \E chain \in PagingChains :
          /\ sorts = [name \in {DefaultSort} |-> chain]
          /\ db \in {d \in SUBSET Table(chain) : Cardinality(d) <= MaxRows}
    /\ sortNodes = NoSortNodes
    /\ paginator \in {[limit |-> l, sort |-> DefaultSort, args |-> Undefined] :
                        l \in 1..MaxLimit}
    /\ base \in BaseQueries
    /\ items = <<>>
    /\ page = NoPage
    /\ pages = <<>>
    /\ held = NoCursor
    /\ calls = 0
    /\ muts = 0
    /\ issued = <<>>
    /\ builds = 0
    /\ remaining = 0
    /\ minted = NoInstance
    /\ declared = <<>>
    /\ created = NoCreated
    /\ OthersIdle
    /\ pc = "idle"
    /\ qry = NoQry
    /\ orderBy = <<>>
    /\ node = <<>>
    /\ entity = NoEntity
    /\ cursorValues = NoValues
    /\ cursor = NoCursorObj
    /\ str = NoCursor
    /\ parsed = NoParse

Rejected(cls, msg, info) ==
    [err |-> cls, msg |-> msg, info |-> info, items |-> <<>>,
     remaining |-> 0, cursor |-> NoCursor]
Resolved(rows, count, cursorStr) ==
    [err |-> "none", msg |-> "", info |-> NoInfo, items |-> rows,
     remaining |-> count, cursor |-> cursorStr]

\* execute up to `await qry`: the query is built from the cursor the client
\* holds and the rows are fetched; a failure while building rejects the call
\* before any query is sent.
Fetching(maxCalls) ==
    /\ pc = "idle"
    /\ calls < maxCalls
    /\ calls' = calls + 1
    /\ LET g == getSortNodes(sortNodes, sorts)
       IN /\ sortNodes' = g.cache
          /\ builds' = builds + (IF g.created THEN 1 ELSE 0)
          /\ IF g.err # "none"
             THEN /\ page' = Rejected(g.err, g.msg, NoInfo)
                  /\ issued' = <<>>
                  /\ UNCHANGED <<pc, qry, orderBy, items>>
             ELSE LET q == getQuery(g.cache.nodes, paginator, base, held)
                  IN IF q.err # "none"
                     THEN /\ page' = Rejected(q.err, q.msg, q.info)
                          /\ issued' = <<>>
                          /\ UNCHANGED <<pc, qry, orderBy, items>>
                     ELSE /\ qry' = Qry(q.clauses)
                          /\ orderBy' = q.orderBy
                          /\ items' \in Fetch(q.orderBy, Select(q.clauses, db),
                                              paginator.limit)
                          /\ issued' = <<"fetch">>
                          /\ pc' = "fetched"
                          /\ UNCHANGED page
    /\ UNCHANGED <<otherVars, node, entity, cursorValues, codecVars, db,
                   sorts, paginator, base, pages, held, muts, remaining,
                   minted>>

ExecuteFetch == Fetching(MaxCalls)

\* execute from the rows to its second await: with rows on the page the
\* remaining count is asked for, by a second query when the page is full,
\* and the answer is awaited; other callbacks run in the meantime.
ExecuteCount ==
    /\ pc = "fetched"
    /\ items # <<>>
    /\ pc' = "counted"
    /\ LET count == getRemainingCount(qry.clauses, db, Len(items),
                                      paginator.limit)
       IN /\ remaining' = count.remaining
          /\ issued' = IF count.counted THEN Append(issued, "count")
                       ELSE issued
    /\ UNCHANGED <<otherVars, nodeVars, codecVars, db, sorts, sortNodes,
                   paginator, base, items, page, pages, held, calls, muts,
                   builds, minted>>

\* execute from the answer of the count, or from the rows of an empty page,
\* to its return: the next cursor is minted and the page resolved; the
\* client keeps the returned cursor.
ExecuteFinish ==
    /\ \/ pc = "counted"
       \/ pc = "fetched" /\ items = <<>>
    /\ pc' = "idle"
    /\ remaining' = 0
    /\ IF items # <<>>
       THEN LET next == createCursorString(sortNodes.nodes, paginator,
                                           items[Len(items)])
            IN IF next.err # "none"
               THEN /\ page' = Rejected(next.err, next.msg, NoInfo)
                    /\ UNCHANGED <<pages, held, minted>>
               ELSE /\ page' = Resolved(items, remaining, next.str)
                    /\ pages' = pages \o items
                    /\ held' = next.str
                    /\ minted' = paginator
       ELSE /\ page' = Resolved(items, 0,
                                IF held.kind = "none"
                                THEN createEmptyCursorString(paginator)
                                ELSE held)
            /\ held' = page'.cursor
            /\ minted' = IF held.kind = "none" THEN paginator ELSE minted
            /\ UNCHANGED pages
    /\ UNCHANGED <<otherVars, nodeVars, codecVars, db, sorts, sortNodes,
                   paginator, base, items, calls, muts, issued, builds>>

\* Another client inserts a row into the table.
Insert ==
    /\ pc \in {"idle", "fetched", "counted"}
    /\ muts < MaxMut
    /\ \E r \in Table(sorts[DefaultSort]) \ db : db' = db \cup {r}
    /\ muts' = muts + 1
    /\ UNCHANGED <<otherVars, nodeVars, codecVars, pc, sorts, sortNodes,
                   paginator,
                   base, items, page, pages, held, calls, issued, builds,
                   remaining, minted>>

\* Another client deletes a row from the table.
Delete ==
    /\ pc \in {"idle", "fetched", "counted"}
    /\ muts < MaxMut
    /\ \E r \in db : db' = db \ {r}
    /\ muts' = muts + 1
    /\ UNCHANGED <<otherVars, nodeVars, codecVars, pc, sorts, sortNodes,
                   paginator,
                   base, items, page, pages, held, calls, issued, builds,
                   remaining, minted>>

PagingNext ==
    ExecuteFetch \/ ExecuteCount \/ ExecuteFinish \/ Insert \/ Delete

SpecPaging == PagingInit /\ [][PagingNext]_vars

(* ============ Paginator#execute: instances, sorts and cursors ========= *)
\* The declared sorts of the paginator type: two sorts that build, declared
\* in full or with properties left to their defaults, or a second sort
\* without descriptors or with a column identifier that is none.
DeclaredSorts ==
    {[default |-> <<ConcreteSortDescriptor(Col(1), "integer", FALSE, "asc")>>,
      other |-> <<ConcreteSortDescriptor(Col(1), "integer", TRUE, "desc"),
                  ConcreteSortDescriptor(Col(2), "integer", FALSE, "asc")>>],
     [default |-> <<[column |-> Col(1), columnType |-> "integer"]>>,
      other |-> <<[column |-> Col(1), columnType |-> "integer",
                   nullable |-> TRUE, direction |-> "desc"],
                  [column |-> Col(2), columnType |-> "integer"]>>],
     [default |-> <<ConcreteSortDescriptor(Col(1), "integer", FALSE, "asc")>>,
      other |-> <<>>],
     [default |-> <<ConcreteSortDescriptor(Col(1), "integer", FALSE, "asc")>>,
      other |-> <<[column |-> <<"a", ".", ".">>]>>]}

\* Instances of the type: a limit, a sort name (declared or not) and args.
RequestedSorts == {"default", "other", "missing", "constructor"}
Instances ==
    {[limit |-> l, sort |-> srt, args |-> a] :
        l \in 1..MaxLimit, srt \in RequestedSorts, a \in {IntVal(1), IntVal(2)}}

\* The rows of the table: the first column may hold null.
ExecTables ==
    {d \in SUBSET {[c \in TableColumns |-> IF c = Col(1) THEN v ELSE IntVal(1)] :
                      v \in DbVals} : Cardinality(d) <= MaxRows}

\* The values arrays of the supplied cursors: none, arrays of valid values
\* as long as a chain, and arrays that are empty, too short or hold values
\* no column of the chains accepts.
SuppliedValues ==
    {NoArr, Arr(<<IntVal(1)>>), Arr(<<IntVal(1), IntVal(1)>>), Arr(<<>>),
     Arr(<<Null>>), Arr(<<StrVal(1)>>), Arr(<<StrVal(1), Null>>)}

\* The cursor strings a client supplies: none, cursors of this and another
\* query and of any sort, with and without values, cursors that carry an
\* `a` as well, and malformed strings.
SuppliedCursors ==
    {NoCursor, [kind |-> "badjson", obj |-> NoCursor.obj],
     [kind |-> "json", obj |-> IntVal(1)]}
    \cup {encodeObject([q |-> q, s |-> srt, a |-> Undefined, v |-> v]) :
             q \in {StrVal(1), StrVal(2)},
             srt \in {StrVal(1), StrVal(2), StrVal(3), StrVal(4)},
             v \in SuppliedValues}
    \cup {encodeObject([q |-> q, s |-> StrVal(1), a |-> a, v |-> v]) :
             q \in {StrVal(1), StrVal(2)},
             a \in {IntVal(1), Null},
             v \in {NoArr, Arr(<<IntVal(1)>>)}}

ExecInit ==
    /\ sorts \in DeclaredSorts
    /\ db \in ExecTables
    /\ sortNodes = NoSortNodes
    /\ paginator \in Instances
    /\ base \in BaseQueries
    /\ items = <<>>
    /\ page = NoPage
    /\ pages = <<>>
    /\ held \in SuppliedCursors
    /\ calls = 0
    /\ muts = 0
    /\ issued = <<>>
    /\ builds = 0
    /\ remaining = 0
    /\ minted = NoInstance
    /\ declared = <<>>
    /\ created = NoCreated
    /\ OthersIdle
    /\ pc = "idle"
    /\ qry = NoQry
    /\ orderBy = <<>>
    /\ node = <<>>
    /\ entity = NoEntity
    /\ cursorValues = NoValues
    /\ cursor = NoCursorObj
    /\ str = NoCursor
    /\ parsed = NoParse

\* new Paginator(options, args): another instance of the same type serves the
\* client's next call.
NewInstance ==
    /\ pc = "idle"
    /\ calls \in 1..(MaxCalls - 1)
    /\ paginator' \in Instances \ {paginator}
    /\ UNCHANGED <<otherVars, nodeVars, codecVars, pc, db, sorts, sortNodes,
                   base, items,
                   page, pages, held, calls, muts, issued, builds, remaining,
                   minted>>

ExecNext == ExecuteFetch \/ ExecuteCount \/ ExecuteFinish \/ NewInstance

SpecExecute == ExecInit /\ [][ExecNext]_vars

(* ================== execute: the claims on one call ================== *)
\* A step that starts an execute, and a step that ends one.
Starts == pc = "idle" /\ calls' = calls + 1
Counts == pc = "fetched" /\ pc' = "counted"
Ends == pc \in {"fetched", "counted"} /\ pc' = "idle"

\* The declared sorts build, so the call gets as far as looking up its sort.
Builds == \A name \in DOMAIN sorts : createSortNode(sorts[name]).err = "none"

\* The chain of concrete descriptors a declared sort stands for.
ChainOf(name) == createSortNode(sorts[name]).node

\* The held string is the encoding of a well-formed cursor object: an
\* object with strings q and s and with no v or an array v.
WellFormed(s) ==
    /\ s.kind = "json"
    /\ "q" \in DOMAIN s.obj
    /\ s.obj.q.t = "str"
    /\ s.obj.s.t = "str"
    /\ s.obj.v.t \in {"undef", "arr"}

\* C13: with a sort node found, a well-formed cursor whose q is not the
\* query name is rejected with 'Cursor is for a different query' and both
\* names; one with the right q whose s is not the sort name of the instance
\* with 'Cursor is for a different sort' and both sort names; neither sends
\* a query; a cursor with both right is not rejected for its identity.
C13_CursorIdentityChecked ==
    [][(Starts /\ Builds /\ WellFormed(held)
        /\ (paginator.sort \in DOMAIN sorts \cup InheritedNames)) =>
          LET q == held.obj.q
              srt == held.obj.s
          IN IF q # QueryName
             THEN /\ page' = Rejected("InvalidCursorError",
                                      "Cursor is for a different query",
                                      Info("cursorQuery", q, QueryName))
                  /\ issued' = <<>>
                  /\ pc' = "idle"
             ELSE IF srt # SortId(paginator.sort)
             THEN /\ page' = Rejected("InvalidCursorError",
                                      "Cursor is for a different sort",
                                      Info("cursorSort", srt,
                                           SortId(paginator.sort)))
                  /\ issued' = <<>>
                  /\ pc' = "idle"
             ELSE \/ pc' = "fetched"
                  \/ page'.msg \notin {"Cursor is for a different query",
                                       "Cursor is for a different sort"}]_vars

\* A cursor of this query and of another sort has been rejected.
C13_Witness ==
    /\ page.err = "InvalidCursorError"
    /\ page.msg = "Cursor is for a different sort"
    /\ held.obj.q = QueryName
    /\ issued = <<>>
    /\ calls = 1

\* The call is served by an instance of the sort of the instance that minted
\* the held cursor.
Reuses == Starts /\ minted # NoInstance /\ paginator.sort = minted.sort

\* C14 as stated: a minted cursor consumed by an instance of the same sort
\* with different args is rejected with 'Args hash mismatch'; consumed with
\* equal args it is accepted.
C14_ArgsMismatchRejected ==
    [][Reuses =>
          IF paginator.args # minted.args
          THEN /\ page'.err = "InvalidCursorError"
               /\ page'.msg = "Args hash mismatch"
          ELSE pc' = "fetched"]_vars

\* C14 amended: a minted cursor consumed by an instance of the same sort is
\* accepted, the row fetch is sent, whether the args are equal or not.
C14_ArgsNotChecked ==
    [][Reuses => (pc' = "fetched" /\ issued' = <<"fetch">>)]_vars

\* A cursor minted under args 1 got rows for an instance with args 2.
C14_Witness ==
    /\ pc = "fetched"
    /\ minted # NoInstance
    /\ minted.args # paginator.args
    /\ minted.sort = paginator.sort
    /\ held.kind = "json"
    /\ items # <<>>

\* C15: an instance with a sort name that is not declared can be made, and
\* every execute on it, whatever the cursor, is rejected with
\* UnknownSortError carrying the sort name, without any query being sent.
C15_UndeclaredSortRejected ==
    [][(Starts /\ Builds /\ paginator.sort \notin DOMAIN sorts) =>
          /\ page' = Rejected("UnknownSortError", "Unknown sort",
                              Info("sort", SortId(paginator.sort), Undefined))
          /\ issued' = <<>>
          /\ pc' = "idle"]_vars

\* C16: the count query is sent exactly when the row fetch returned limit
\* rows, and only once the rows are there; without it remaining is 0.
C16_CountOnlyAfterFullPage ==
    [][/\ Starts => issued' \in {<<>>, <<"fetch">>}
       /\ Counts =>
            /\ issued = <<"fetch">>
            /\ issued' = (IF Len(items) = paginator.limit
                          THEN <<"fetch", "count">> ELSE <<"fetch">>)
       /\ Ends =>
            /\ issued' = issued
            /\ (issued' = <<"fetch">> /\ page'.err = "none") =>
                   page'.remaining = 0]_vars

\* A full page with rows remaining, and a short page.
C16_Witness ==
    /\ pc = "idle"
    /\ issued = <<"fetch", "count">>
    /\ page.err = "none"
    /\ page.remaining > 0
    /\ calls = 1

\* The values of the sort columns of a row, in chain order.
Boundary(chain, row) == [i \in 1..Len(chain) |-> row[chain[i].column]]

\* C17: a page with rows returns a cursor with the query name, the sort name
\* and the sort-column values of the last row, one per chain position; an
\* empty page returns a cursor with that identity and no values when no
\* cursor was supplied, and the supplied cursor string when one was.
C17_ReturnedCursor ==
    [][(Ends /\ page'.err = "none") =>
          IF items # <<>>
          THEN Cursor_parse(page'.cursor) =
                  ParseOk(Cursor(QueryName, SortId(paginator.sort),
                                 Arr(Boundary(ChainOf(paginator.sort),
                                              items[Len(items)])),
                                 Undefined))
          ELSE IF held = NoCursor
          THEN Cursor_parse(page'.cursor) =
                  ParseOk(Cursor(QueryName, SortId(paginator.sort), NoArr,
                                 Undefined))
          ELSE page'.cursor = held]_vars

\* A page of the two-column sort returned a cursor with two values.
C17_Witness ==
    /\ pc = "idle"
    /\ page.err = "none"
    /\ page.items # <<>>
    /\ paginator.sort = "other"
    /\ page.cursor.kind = "json"
    /\ Len(page.cursor.obj.v.items) = 2
    /\ minted = paginator

\* C20: once the sort nodes of the type are stored, no execute of any
\* instance builds or replaces them; what is stored is the complete set of
\* chains, and nothing is stored when building fails.
C20_SortNodesBuiltOnce ==
    [][/\ sortNodes.built => (sortNodes' = sortNodes /\ builds' = builds)
       /\ sortNodes'.built =>
            /\ DOMAIN sortNodes'.nodes = DOMAIN sorts
            /\ \A name \in DOMAIN sorts :
                  sortNodes'.nodes[name] = ChainOf(name)
            /\ builds' = 1
       /\ ~sortNodes'.built => sortNodes' = NoSortNodes]_vars

\* A second instance has run on the stored nodes, built once.
C20_Witness ==
    /\ sortNodes.built
    /\ builds = 1
    /\ calls >= 2
    /\ minted # NoInstance
    /\ minted # paginator
    /\ pc = "fetched"

\* Building failed each time and nothing is stored.
C20_WitnessFailure ==
    /\ ~sortNodes.built
    /\ builds >= 2
    /\ page.err = "TypeError"

(* ======================== paging: the claims ========================= *)
TheChain == sorts[paginator.sort]

Range(seq) == {seq[i] : i \in 1..Len(seq)}

NoDuplicates(seq) == \A i, j \in 1..Len(seq) : i # j => seq[i] # seq[j]

IsPrefix(s, t) == Len(s) <= Len(t) /\ \A i \in 1..Len(s) : s[i] = t[i]

\* The sort columns are non-null and jointly unique over the rows.
UniqueNonNull(rows, chain) ==
    /\ \A r \in rows : \A i \in 1..Len(chain) : r[Col(i)] # Null
    /\ \A r1, r2 \in rows :
          (\A i \in 1..Len(chain) : r1[Col(i)] = r2[Col(i)]) => r1 = r2

\* The base result set in chain order (one sequence when keys are unique).
BaseResult ==
    CHOOSE s \in Fetch(applyOrder(TheChain), Select(base, db),
                       Cardinality(db)) : TRUE

\* C2: over an unchanging table with jointly unique non-null sort columns,
\* the pages obtained by passing each returned cursor to the next execute
\* concatenate to the base result set in chain order: always a prefix of
\* it, and all of it once a page comes back short of the limit.
C2_PagesConcatenateToBaseResult ==
    (pc = "idle" /\ calls > 0 /\ muts = 0 /\ UniqueNonNull(db, TheChain)) =>
        /\ page.err = "none"
        /\ IsPrefix(pages, BaseResult)
        /\ Len(page.items) < paginator.limit => pages = BaseResult

C2_Witness ==
    /\ pc = "idle" /\ muts = 0 /\ UniqueNonNull(db, TheChain)
    /\ Len(TheChain) = 2
    /\ calls >= 3 /\ paginator.limit = 1
    /\ page.err = "none" /\ page.items = <<>>
    /\ Len(pages) >= 2 /\ pages = BaseResult
    /\ pages[1][Col(1)] = pages[2][Col(1)]

\* C3: when rows are inserted or deleted between the calls (sort columns
\* jointly unique and non-null), every row fetched with a cursor comes
\* strictly after the last item of the page that minted the cursor, so no
\* row is returned twice.
C3_FetchedRowsAfterCursorRow ==
    (pc = "fetched" /\ pages # <<>>
        /\ UniqueNonNull(db \cup Range(items) \cup Range(pages), TheChain)) =>
        /\ \A i \in 1..Len(items) :
              After(orderBy, pages[Len(pages)], items[i])
        /\ NoDuplicates(pages \o items)

C3_Witness ==
    /\ pc = "fetched" /\ pages # <<>> /\ items # <<>> /\ muts > 0
    /\ UniqueNonNull(db \cup Range(items) \cup Range(pages), TheChain)
    /\ \E r \in db :
          r \notin Range(pages) /\ After(orderBy, r, pages[Len(pages)])

\* Null rows of the head column come last in the sequence (ascending and
\* descending-nulls-last) or first (plain descending).
HeadNullsPlaced(seq, direction) ==
    \A i, j \in 1..Len(seq) :
        i < j =>
            IF direction = "desc"
            THEN ~(seq[i][Col(1)] # Null /\ seq[j][Col(1)] = Null)
            ELSE ~(seq[i][Col(1)] = Null /\ seq[j][Col(1)] # Null)

\* C7: for a nullable column the emitted ORDER BY terms put nulls last in
\* an ascending sort, first in a plain descending sort and last in a
\* descending-nulls-last sort, and the pages of successive execute calls
\* follow that placement.
C7_PagesFollowNullPlacement ==
    (pc = "idle" /\ calls > 0 /\ muts = 0 /\ TheChain[1].nullable) =>
        /\ page.err = "none"
        /\ \A r1, r2 \in Table(TheChain) :
              (r1[Col(1)] = Null /\ r2[Col(1)] # Null) =>
                  IF TheChain[1].direction = "desc"
                  THEN After(orderBy, r1, r2) ELSE After(orderBy, r2, r1)
        /\ HeadNullsPlaced(pages, TheChain[1].direction)

(* ============ createSortNode on declared sort descriptors ============= *)
MaxIdLen == 5

\* A column identifier is the sequence of its characters.
IdChars == {"a", "."}
ColumnIds == UNION {[1..n -> IdChars] : n \in 0..MaxIdLen}

\* The declarations: every column identifier with every mix of given and
\* omitted properties, a type tag and a direction outside the enumerations
\* among them.
Optional(key, values) ==
    {[k \in {} |-> 0]} \cup {[k \in {key} |-> v] : v \in values}
DeclaredObjects ==
    {[column |-> id] @@ t @@ n @@ dir @@ path :
        id \in ColumnIds,
        t \in Optional("columnType", ColumnType \cup {"bogus"}),
        n \in Optional("nullable", BOOLEAN),
        dir \in Optional("direction", SortDirection \cup {"bogus"}),
        path \in Optional("valuePath", {<<"p">>})}
DeclaredShortcuts == {[shortcut |-> id] : id \in ColumnIds}
DeclaredDescriptors == DeclaredObjects \cup DeclaredShortcuts

\* The descriptors the longer declarations are made of.
ListDescriptors ==
    {[shortcut |-> <<"a">>],
     [shortcut |-> <<"a", ".", "a">>],
     [column |-> <<"a">>, columnType |-> "integer", nullable |-> TRUE,
      direction |-> "desc"],
     [column |-> <<"a", ".", ".">>],
     [column |-> <<"a">>, columnType |-> "bogus"],
     [column |-> <<"a">>, direction |-> "bogus"]}
Declarations ==
    {<<>>} \cup {<<d>> : d \in DeclaredDescriptors}
    \cup UNION {[1..n -> ListDescriptors] : n \in 2..MaxChain}

ConfigInit ==
    /\ declared \in Declarations
    /\ created = NoCreated
    /\ OthersIdle
    /\ pc = "declared"
    /\ node = <<>>
    /\ entity = NoEntity
    /\ cursorValues = NoValues
    /\ qry = NoQry
    /\ orderBy = <<>>
    /\ cursor = NoCursorObj
    /\ str = NoCursor
    /\ parsed = NoParse
    /\ db = {}
    /\ sorts = <<>>
    /\ sortNodes = NoSortNodes
    /\ paginator = NoInstance
    /\ base = <<>>
    /\ items = <<>>
    /\ page = NoPage
    /\ pages = <<>>
    /\ held = NoCursor
    /\ calls = 0
    /\ muts = 0
    /\ issued = <<>>
    /\ builds = 0
    /\ remaining = 0
    /\ minted = NoInstance

\* createSortNode on the declaration.
CreateSortNode ==
    /\ pc = "declared"
    /\ created' = createSortNode(declared)
    /\ pc' = "created"
    /\ UNCHANGED <<declared, nodeVars, codecVars, executeVars, validateVars,
                   typeVars>>

SpecConfig == ConfigInit /\ [][CreateSortNode]_vars

(* ----------------------- configuration: the claims -------------------- *)
\* The concrete raw an accepted declaration stands for.
ColumnOf(raw) ==
    IF isShortcut(raw) THEN raw.shortcut ELSE raw.column
Accepted(raw) == newConcreteSortDescriptor(raw).err = "none"

\* C18: building from an empty raw list fails with ConfigurationError
\* and yields no chain; building from n >= 1 (valid) descriptors yields a
\* chain of exactly n nodes that hold the descriptors in the given order.
C18_EmptyListConfigurationError ==
    pc = "created" =>
        /\ declared = <<>> =>
              created.err = "ConfigurationError" /\ created.node = <<>>
        /\ (declared # <<>>
            /\ \A i \in 1..Len(declared) : Accepted(declared[i])) =>
              /\ created.err = "none"
              /\ Len(created.node) = Len(declared)
              /\ \A i \in 1..Len(declared) :
                    created.node[i].column = ColumnOf(declared[i])

\* The segments of a column identifier between its dots.
RECURSIVE Segments(_)
Segments(id) ==
    IF \A i \in 1..Len(id) : id[i] # "."
    THEN <<id>>
    ELSE LET dot == CHOOSE i \in 1..Len(id) :
                       id[i] = "." /\ \A j \in 1..(i - 1) : id[j] # "."
         IN <<SubSeq(id, 1, dot - 1)>>
            \o Segments(SubSeq(id, dot + 1, Len(id)))
GoodColumn(id) ==
    /\ Len(Segments(id)) \in {1, 2}
    /\ \A i \in 1..Len(Segments(id)) : Segments(id)[i] # <<>>
Given(raw, key) ==
    ~isShortcut(raw) /\ key \in DOMAIN raw

\* C19: a declared raw is made concrete exactly when its type tag (if
\* given) is a recognized type, its direction (if given) is a recognized
\* direction and its column identifier is one non-empty dot-free segment or
\* two of them joined by one dot; otherwise the call fails with
\* ConfigurationError.  The concrete raw holds the given properties,
\* and string, not nullable, ascending and the column as value path for the
\* omitted ones.
C19_NormalizeAcceptsExactly ==
    (pc = "created" /\ Len(declared) = 1) =>
        LET raw == declared[1]
            good == /\ GoodColumn(ColumnOf(raw))
                    /\ Given(raw, "columnType") => raw.columnType \in ColumnType
                    /\ Given(raw, "direction") => raw.direction \in SortDirection
        IN IF good
           THEN /\ created.err = "none"
                /\ Len(created.node) = 1
                /\ LET d == created.node[1]
                   IN /\ d.column = ColumnOf(raw)
                      /\ d.columnType = IF Given(raw, "columnType")
                                        THEN raw.columnType ELSE "string"
                      /\ d.nullable = IF Given(raw, "nullable")
                                      THEN raw.nullable ELSE FALSE
                      /\ d.direction = IF Given(raw, "direction")
                                       THEN raw.direction ELSE "asc"
                      /\ d.valuePath = IF Given(raw, "valuePath")
                                       THEN raw.valuePath ELSE ColumnOf(raw)
           ELSE created.err = "ConfigurationError" /\ created.node = <<>>

\* C19 witness: a shortcut with a qualified column was made concrete with
\* all four defaults, and a declaration with two dots was turned away.
C19_Witness ==
    /\ pc = "created"
    /\ Len(declared) = 1
    /\ isShortcut(declared[1])
    /\ declared[1].shortcut = <<"a", ".", "a">>
    /\ created.err = "none"
    /\ created.node[1].columnType = "string"
    /\ created.node[1].direction = "asc"
    /\ ~created.node[1].nullable
    /\ created.node[1].valuePath = <<"a", ".", "a">>
    /\ ~Accepted([column |-> <<"a", ".", "a", ".", "a">>])

(* ================== SortNode: the null-aware filters ================== *)
\* The value of the row's column is strictly past v in the column's direction.
Past(d, row, v) ==
    /\ row[d.column] # Null
    /\ IF d.direction = "asc" THEN row[d.column].v > v.v
       ELSE row[d.column].v < v.v

\* C21: for a single nullable column and a valid non-null boundary value v,
\* the filter selects exactly the rows with column OPERATOR v and, when the
\* ORDER BY terms place null rows after non-null rows, every null row; it
\* selects no null row when the terms place null rows first.
C21_NullRowsOnTheirSide ==
    (pc = "given" /\ Len(node) = 1 /\ node[1].nullable
        /\ ValidNonNull(node, cursorValues.values)) =>
        /\ qry.err = "none"
        /\ NullsAfter(1) \/ NullsBefore(1)
        /\ \A r \in Dataset(node) :
              EvalWhere(qry.clauses, r)
                  <=> IF r[Col(1)] = Null THEN NullsAfter(1)
                      ELSE Past(node[1], r, cursorValues.values[1])

\* A descending-nulls-last column: a null row and a smaller row are selected,
\* a larger row is not.
C21_Witness ==
    /\ pc = "given" /\ Len(node) = 1 /\ node[1].nullable
    /\ node[1].direction = "descnl"
    /\ cursorValues.values = <<IntVal(2)>>
    /\ \E r \in Dataset(node) : r[Col(1)] = Null /\ EvalWhere(qry.clauses, r)
    /\ \E r \in Dataset(node) : r[Col(1)] = IntVal(1) /\ EvalWhere(qry.clauses, r)
    /\ \E r \in Dataset(node) : r[Col(1)] = IntVal(2) /\ ~EvalWhere(qry.clauses, r)

\* The filter the child builds on a builder of its own for the values after
\* the first.
TailClauses(chain, values) ==
    applyCursorValues(child(chain), Qry(<<>>), Tail(values)).clauses

\* C22: for a chain with a child whose head column is nullable and cursor
\* values that start with null, a row with a null head is selected exactly
\* when the child's filter for the remaining values selects it, and a row
\* with a non-null head exactly when the ORDER BY terms place null rows
\* before non-null rows.
C22_NullHeadWithTail ==
    (pc = "given" /\ hasChild(node) /\ node[1].nullable
        /\ cursorValues.values # <<>> /\ Head(cursorValues.values) = Null
        /\ qry.err = "none") =>
        \A r \in Dataset(node) :
            EvalWhere(qry.clauses, r)
                <=> IF r[Col(1)] = Null
                    THEN EvalWhere(TailClauses(node, cursorValues.values), r)
                    ELSE NullsBefore(1)

\* The head column of the row is on the boundary's side of the order or on
\* the boundary: it is strictly past v, equal to v, or null where the ORDER BY
\* terms place null rows after non-null rows.
HeadPastOrEqual(chain, row, v) ==
    \/ Past(chain[1], row, v)
    \/ row[Col(1)] = v
    \/ row[Col(1)] = Null /\ chain[1].nullable /\ chain[1].direction # "desc"

\* C26: for a chain with a child and a valid non-null first cursor value, a
\* row whose head column is neither strictly past that value nor equal to it
\* is never selected, whatever the other columns of the row and the other
\* cursor values hold.
C26_HeadBeforeBoundaryExcluded ==
    (pc = "given" /\ hasChild(node) /\ cursorValues.values # <<>>
        /\ Head(cursorValues.values) \in IntVals /\ qry.err = "none") =>
        \A r \in Dataset(node) :
            EvalWhere(qry.clauses, r)
                => HeadPastOrEqual(node, r, Head(cursorValues.values))

(* ========== ConcreteSortDescriptor#validateCursorValue alone ========= *)
\* Values of every type a cursor or an entity can hold.
FloatVal(n) == [t |-> "float", v |-> n]
BoolVal(n) == [t |-> "bool", v |-> n]
DateVal(n) == [t |-> "date", v |-> n]
AnyValues ==
    {Null, Undefined, IntVal(1), IntVal(MaxVal), StrVal(1), FloatVal(1),
     BoolVal(1), DateVal(1)}

\* Descriptors of every column type, with and without a validation function.
ValidatedDescriptors ==
    {[ConcreteSortDescriptor(Col(1), t, n, "asc") EXCEPT !.validate = f] :
        t \in ColumnType, n \in BOOLEAN, f \in Validators \cup {"none"}}

ValidateInit ==
    /\ node \in {<<d>> : d \in ValidatedDescriptors}
    /\ given \in [value : AnyValues,
                  validationCase : {"Configuration", "Cursor"}]
    /\ validated = NoValidated
    /\ typeSorts = <<>>
    /\ typeNodes = <<>>
    /\ resolved = NoResolved
    /\ pc = "new"
    /\ entity = NoEntity
    /\ cursorValues = NoValues
    /\ qry = NoQry
    /\ orderBy = <<>>
    /\ cursor = NoCursorObj
    /\ str = NoCursor
    /\ parsed = NoParse
    /\ db = {}
    /\ sorts = <<>>
    /\ sortNodes = NoSortNodes
    /\ paginator = NoInstance
    /\ base = <<>>
    /\ items = <<>>
    /\ page = NoPage
    /\ pages = <<>>
    /\ held = NoCursor
    /\ calls = 0
    /\ muts = 0
    /\ issued = <<>>
    /\ builds = 0
    /\ remaining = 0
    /\ minted = NoInstance
    /\ declared = <<>>
    /\ created = NoCreated

\* descriptor.validateCursorValue(value, validationCase)
ValidateCursorValue ==
    /\ pc = "new"
    /\ validated' = validateCursorValue(descriptor(node), given.value,
                                        given.validationCase)
    /\ pc' = "validated"
    /\ UNCHANGED <<nodeVars, codecVars, executeVars, configVars, given,
                   typeVars>>

SpecValidate == ValidateInit /\ [][ValidateCursorValue]_vars

\* The type check of the column types, value type by value type.
TypeMatches(columnType, value) ==
    value.t \in (CASE columnType = "string" -> {"str"}
                   [] columnType = "integer" -> {"int"}
                   [] columnType = "float" -> {"int", "float"}
                   [] columnType = "boolean" -> {"bool"}
                   [] columnType = "date" -> {"date", "str"})

\* What the validation function of the descriptor answers: "true", "false"
\* or "string".
Answer(d, value) ==
    CASE d.validate \in {"none", "accept"} -> "true"
      [] d.validate = "reject" -> "false"
      [] d.validate = "explain" -> "string"
      [] d.validate = "notNull" -> IF value = Null THEN "string" ELSE "true"

\* C23: a null value fails unless the column is nullable and is not type
\* checked; a non-null value fails unless it has the declared type; then the
\* validation function, if declared, is called once with the value, true
\* passes, false fails with 'Invalid cursor value' and a string fails with
\* that string; the first failing step gives the error, the function is not
\* called after a failed null or type check, and a valid value is returned
\* as it is.
C23_ValidationOrder ==
    pc = "validated" =>
        LET d == descriptor(node)
            value == given.value
            cls == IF given.validationCase = "Configuration"
                   THEN "ConfigurationError" ELSE "InvalidCursorError"
        IN IF value = Null /\ ~d.nullable
           THEN /\ validated.err = cls
                /\ validated.msg
                      = "Cursor value is null, but column is not nullable"
                /\ validated.calls = <<>>
           ELSE IF value # Null /\ ~TypeMatches(d.columnType, value)
           THEN /\ validated.err = cls
                /\ validated.msg
                      = "Cursor value does not match its column type"
                /\ validated.calls = <<>>
           ELSE /\ validated.calls
                      = IF d.validate = "none" THEN <<>> ELSE <<value>>
                /\ Answer(d, value) = "true" =>
                      validated.err = "none" /\ validated.value = value
                /\ Answer(d, value) = "false" =>
                      validated.err = cls
                          /\ validated.msg = "Invalid cursor value"
                /\ Answer(d, value) = "string" =>
                      validated.err = cls
                          /\ validated.msg
                                = ValidationFunction(d, value).msg

\* The validation function was called with a null that passed the nullable
\* check and turned it away with its own message.
C23_Witness ==
    /\ pc = "validated"
    /\ given.value = Null
    /\ descriptor(node).nullable
    /\ descriptor(node).validate = "notNull"
    /\ validated.calls = <<Null>>
    /\ validated.err = "InvalidCursorError"
    /\ validated.msg = ""

(* ============ paging an unchanging table to its end and on =========== *)
\* Calls enough to reach the end of any table, and two more.
MaxDrainCalls == MaxRows + 3

\* The client keeps calling execute with the cursor of the page before.
DrainFetch == Fetching(MaxDrainCalls)

DrainNext == DrainFetch \/ ExecuteCount \/ ExecuteFinish

\* The tables of the claim: sort columns non-null and jointly unique.
DrainInit ==
    /\ PagingInit
    /\ \A r \in db : \A i \in 1..Len(sorts[DefaultSort]) : r[Col(i)] # Null
    /\ \A r1, r2 \in db :
          (\A i \in 1..Len(sorts[DefaultSort]) : r1[Col(i)] = r2[Col(i)]) => r1 = r2

\* When the steps of execute can be taken: a call can start while no call
\* is in progress, and a call in progress can always take its next step.
FetchEnabled == pc = "idle" /\ calls < MaxDrainCalls
CountEnabled == pc = "fetched" /\ items # <<>>
FinishEnabled == pc = "counted" \/ (pc = "fetched" /\ items = <<>>)

\* Weak fairness of the steps, WF_vars(DrainFetch), WF_vars(ExecuteCount)
\* and WF_vars(ExecuteFinish), with the enabling conditions written out:
\* every call that can be made is made, and the database answers every
\* query.
SpecDrain ==
    /\ DrainInit
    /\ [][DrainNext]_vars
    /\ ([]<>(~FetchEnabled) \/ []<><<DrainFetch>>_vars)
    /\ ([]<>(~CountEnabled) \/ []<><<ExecuteCount>>_vars)
    /\ ([]<>(~FinishEnabled) \/ []<><<ExecuteFinish>>_vars)

\* The page returned last is short of the limit and nothing remains.
AtEnd ==
    /\ pc = "idle"
    /\ calls > 0
    /\ page.err = "none"
    /\ Len(page.items) < paginator.limit
    /\ page.remaining = 0

\* C24: over an unchanging table with jointly unique non-null sort columns,
\* paging with each returned cursor leads to a page short of the limit with
\* remaining 0, and every execute after it with the latest cursor returns no
\* items, remaining 0 and the cursor it was given.
C24_PagingEnds ==
    /\ (pc = "idle" /\ calls = 0 /\ UniqueNonNull(db, TheChain)) ~> AtEnd
    /\ [][(Ends /\ UniqueNonNull(db, TheChain) /\ page.err = "none"
           /\ Len(page.items) < paginator.limit /\ page.remaining = 0) =>
             /\ items = <<>>
             /\ page' = Resolved(<<>>, 0, held)
             /\ held' = held]_vars

\* A table of MaxRows rows was paged one row at a time to the empty page
\* after the last row, and a further call was served.
C24_Witness ==
    /\ AtEnd
    /\ UniqueNonNull(db, TheChain)
    /\ Cardinality(db) = MaxRows
    /\ paginator.limit = 1
    /\ Len(pages) = MaxRows
    /\ calls = MaxRows + 2
    /\ page.items = <<>>

(* ================= execute with a cursor without values =============== *)
\* The held string is a cursor without a values array.
HoldsNoValues == held.kind = "json" /\ held.obj.v = NoArr

\* C25: an execute that is given a cursor without values (as minted for an
\* empty first page) of the same type and sort is not rejected and sends the
\* query an execute without a cursor would send at that moment: the order
\* and the limit on the base query, no cursor filter; the page is drawn from
\* the rows the table holds then.
C25_ValuelessCursorFromStart ==
    [][(Starts /\ HoldsNoValues) =>
          LET fresh == getQuery(sortNodes'.nodes, paginator, base, NoCursor)
          IN /\ pc' = "fetched"
             /\ qry' = Qry(base)
             /\ qry' = Qry(fresh.clauses)
             /\ orderBy' = fresh.orderBy
             /\ items' \in Fetch(fresh.orderBy, Select(base, db),
                                 paginator.limit)]_vars

\* The cursor of an empty first page fetched a row that was inserted after
\* the cursor was minted.
C25_Witness ==
    /\ pc = "fetched"
    /\ calls = 2
    /\ muts = 1
    /\ HoldsNoValues
    /\ pages = <<>>
    /\ items # <<>>

(* ============== execute on a base query with its own filter =========== *)
\* getBaseQuery() of a paginator that filters: the rows whose second column
\* is greater than 1.
FilteredBaseQueries == {<<where(Col(2), ">", IntVal(1))>>}

FilteredInit ==
    /\ \E chain \in PagingChains :
          /\ sorts = [name \in {DefaultSort} |-> chain]
          /\ db \in {d \in SUBSET Table(chain) : Cardinality(d) <= MaxRows}
    /\ sortNodes = NoSortNodes
    /\ paginator \in {[limit |-> l, sort |-> DefaultSort, args |-> Undefined] :
                        l \in 1..MaxLimit}
    /\ base \in FilteredBaseQueries
    /\ items = <<>>
    /\ page = NoPage
    /\ pages = <<>>
    /\ held = NoCursor
    /\ calls = 0
    /\ muts = 0
    /\ issued = <<>>
    /\ builds = 0
    /\ remaining = 0
    /\ minted = NoInstance
    /\ declared = <<>>
    /\ created = NoCreated
    /\ OthersIdle
    /\ pc = "idle"
    /\ qry = NoQry
    /\ orderBy = <<>>
    /\ node = <<>>
    /\ entity = NoEntity
    /\ cursorValues = NoValues
    /\ cursor = NoCursorObj
    /\ str = NoCursor
    /\ parsed = NoParse

FilteredNext == ExecuteFetch \/ ExecuteCount \/ ExecuteFinish

SpecFiltered == FilteredInit /\ [][FilteredNext]_vars

\* C27: every row of every page satisfies the filter of the base query, for
\* every chain and every cursor the pages lead to: the cursor filter only
\* narrows the base query.
C27_PagesWithinBaseQuery ==
    /\ pc = "fetched" =>
          \A i \in 1..Len(items) : EvalWhere(base, items[i])
    /\ page.err = "none" =>
          \A i \in 1..Len(page.items) : EvalWhere(base, page.items[i])

(* ============ rows changing between the fetch and the count =========== *)
\* C28: the remaining value of every page is a non-negative integer, also
\* when rows are inserted or deleted between the row fetch and the count
\* query of one execute.
C28_RemainingNotNegative ==
    page.err = "none" => page.remaining >= 0

(* ========== a paginator type and a type that extends it ============== *)
\* Child extends Parent; both are concrete and declare their own sorts.
Types == {"Parent", "Child"}
SuperType(type) == IF type = "Child" THEN "Parent" ELSE ""

\* The static sorts of the two types: the same names with different chains,
\* and a name only the subtype declares.
TypeSortDeclarations ==
    {[Parent |-> [default |-> <<p>>],
      Child |-> [default |-> <<c>>, other |-> <<c, o>>]] :
        p \in {ConcreteSortDescriptor(Col(1), "integer", FALSE, dir) :
                  dir \in {"asc", "desc"}},
        c \in {ConcreteSortDescriptor(Col(1), "integer", n, "desc") :
                  n \in BOOLEAN},
        o \in {ConcreteSortDescriptor(Col(2), "integer", FALSE, dir) :
                  dir \in {"asc", "descnl"}}}

\* Reading the static property _sortNodes of a type: the type's own property
\* if it has been assigned, else the property of the type it extends.
readSortNodes(nodesOf, type) ==
    IF nodesOf[type].built THEN nodesOf[type]
    ELSE IF SuperType(type) # "" THEN nodesOf[SuperType(type)]
    ELSE NoSortNodes

TypesInit ==
    /\ typeSorts \in TypeSortDeclarations
    /\ typeNodes = [type \in Types |-> NoSortNodes]
    /\ resolved = NoResolved
    /\ given = NoGiven
    /\ validated = NoValidated
    /\ declared = <<>>
    /\ created = NoCreated
    /\ pc = "idle"
    /\ calls = 0
    /\ db = {}
    /\ sorts = <<>>
    /\ sortNodes = NoSortNodes
    /\ paginator = NoInstance
    /\ base = <<>>
    /\ items = <<>>
    /\ page = NoPage
    /\ pages = <<>>
    /\ held = NoCursor
    /\ muts = 0
    /\ issued = <<>>
    /\ builds = 0
    /\ remaining = 0
    /\ minted = NoInstance
    /\ node = <<>>
    /\ entity = NoEntity
    /\ cursorValues = NoValues
    /\ qry = NoQry
    /\ orderBy = <<>>
    /\ cursor = NoCursorObj
    /\ str = NoCursor
    /\ parsed = NoParse

\* execute on an instance of one of the types, as far as _getSortNode: the
\* sort nodes are read from the type, built from the type's sorts and
\* assigned to the type if none were read, and the sort name is looked up.
ResolveSortNode ==
    /\ calls < MaxCalls
    /\ calls' = calls + 1
    /\ \E type \in Types, sort \in {"default", "other"} :
          LET g == getSortNodes(readSortNodes(typeNodes, type),
                                typeSorts[type])
              n == getSortNode(g.cache.nodes, sort)
          IN /\ typeNodes' = IF g.created
                             THEN [typeNodes EXCEPT ![type] = g.cache]
                             ELSE typeNodes
             /\ resolved' = [type |-> type, sort |-> sort, err |-> n.err,
                             node |-> n.node]
    /\ UNCHANGED <<nodeVars, codecVars, pc, db, sorts, sortNodes, paginator,
                   base, items, page, pages, held, muts, issued, builds,
                   remaining, minted, configVars, validateVars, typeSorts>>

SpecTypes == TypesInit /\ [][ResolveSortNode]_vars

\* C29: the sort node found for a type and a sort name that the type
\* declares is the chain of that type's own sorts declaration, whichever
\* type was executed first and in whatever order the executes come.
C29_OwnSortsPerType ==
    (resolved.type # "" /\ resolved.sort \in DOMAIN typeSorts[resolved.type])
        => /\ resolved.err = "none"
           /\ resolved.node = typeSorts[resolved.type][resolved.sort]

(* ============ execute with a cursor whose values do not fit ========== *)
\* Position i of the chain has no valid value in the array: none at all, a
\* null for a column that is not nullable, or a value of another type.
InvalidAt(chain, vals, i) ==
    \/ i > Len(vals)
    \/ vals[i] = Null /\ ~chain[i].nullable
    \/ vals[i] # Null /\ vals[i].t # "int"
InvalidMsg(chain, vals, i) ==
    IF i <= Len(vals) /\ vals[i] = Null
    THEN "Cursor value is null, but column is not nullable"
    ELSE "Cursor value does not match its column type"

\* The call is given a well-formed cursor of this query and sort that
\* carries a values array.
FitsIdentity ==
    /\ Starts /\ Builds
    /\ paginator.sort \in DOMAIN sorts
    /\ WellFormed(held)
    /\ held.obj.q = QueryName
    /\ held.obj.s = SortId(paginator.sort)
    /\ held.obj.v.t = "arr"

\* C30: a well-formed cursor whose values array is shorter than the chain,
\* the empty array included, is rejected with InvalidCursorError and no
\* query is sent; with several invalid entries the error is the one of the
\* lowest chain position; entries beyond the length of the chain are not
\* looked at.
C30_ShortValuesRejected ==
    [][FitsIdentity =>
          LET chain == ChainOf(paginator.sort)
              vals == held.obj.v.items
              bad == {i \in 1..Len(chain) : InvalidAt(chain, vals, i)}
          IN /\ Len(vals) < Len(chain) => bad # {}
             /\ bad # {} =>
                   LET first == CHOOSE i \in bad : \A j \in bad : i <= j
                   IN /\ page'.err = "InvalidCursorError"
                      /\ page'.msg = InvalidMsg(chain, vals, first)
                      /\ page'.items = <<>>
                      /\ issued' = <<>>
                      /\ pc' = "idle"
             /\ bad = {} =>
                   /\ pc' = "fetched"
                   /\ qry' = Qry(apply(chain, base,
                                       Arr(SubSeq(vals, 1, Len(chain)))).clauses)
          ]_vars

\* The two-column sort was given a null for its nullable head and nothing
\* for its second column, and turned the cursor away.
C30_Witness ==
    /\ pc = "idle"
    /\ calls = 1
    /\ paginator.sort = "other"
    /\ WellFormed(held)
    /\ held.obj.q = QueryName
    /\ held.obj.s = SortId("other")
    /\ held.obj.v = Arr(<<Null>>)
    /\ page.err = "InvalidCursorError"
    /\ page.msg = "Cursor value does not match its column type"
    /\ issued = <<>>
====
